---- MODULE Spec2Model ----
(***************************************************************************)
(* A model of the classification-and-graph-construction core of           *)
(* flatmap-maker:                                                          *)
(*   - ConnectionGraph and ConnectionClassifier                            *)
(*     (src/mapmaker/sources/fc_powerpoint/connections.py)                 *)
(*   - ShapeClassifier (src/mapmaker/shapes/classify.py)                   *)
(*   - ShapeFilter (src/mapmaker/shapes/shapefilter.py)                    *)
(* Geometry is planar with integer grid coordinates; one grid cell is      *)
(* CellSize metres.                                                        *)
(***************************************************************************)
EXTENDS Integers, Sequences, FiniteSets, TLC

VARIABLES
    mode,       \* what the run exercises: "connections", "hinted" (connections
                \* whose drawing names their end connectors), "joins" (neuron
                \* segments at joiners), "shapes" or "filter"
    cc,         \* the ConnectionClassifier object
    conns,      \* the Connection objects passed to add_connection, by id
    raised,     \* an exception has propagated out of a call
    calls,      \* a record of each add_connection call, in order
    slide,      \* the Shape objects handed to the ShapeClassifier
    classifier, \* the ShapeClassifier object
    stage,      \* "ingested", "constructed" or "classified"
    runs,       \* how many times a ShapeClassifier was constructed
    first_run,  \* the shapes as the first classify() left them
    returned,   \* the list the last classify() returned
    sf,         \* the ShapeFilter object
    sf_call     \* a record of the last call of the ShapeFilter

-----------------------------------------------------------------------------
(* Bounds of the model *)

MaxConnectors == 2
MaxConnections == 3
MaxComponents == 1
MaxHinted == 2
MaxJoined == 4
CellSize == 4000
MaxShapes == 4
MaxRuns == 2
MaxFilterCalls == 5

(* Program constants *)

MAX_CONNECTION_GAP == 4000

NoId == 0

-----------------------------------------------------------------------------
(* Sequence helpers (Python list operations) *)

InSeq(x, s) == \E i \in 1..Len(s) : s[i] = x

FirstIndex(x, s) == CHOOSE i \in 1..Len(s) : s[i] = x /\ \A j \in 1..(i-1) : s[j] # x

\* list.remove(x): removes the first occurrence
ListRemove(s, x) ==
    IF ~InSeq(x, s) THEN s
    ELSE LET k == FirstIndex(x, s)
         IN  [i \in 1..(Len(s)-1) |-> IF i < k THEN s[i] ELSE s[i+1]]

Reversed(s) == [i \in 1..Len(s) |-> s[Len(s) + 1 - i]]

Last(s) == s[Len(s)]

Min(a, b) == IF a < b THEN a ELSE b
Max(a, b) == IF a > b THEN a ELSE b

-----------------------------------------------------------------------------
(* networkx.Graph as used by ConnectionGraph: a node set, an insertion-    *)
(* ordered adjacency list per node, and ONE data record per unordered      *)
(* node pair.                                                              *)

Pair(u, v) == IF u <= v THEN <<u, v>> ELSE <<v, u>>

ConnectionGraph == [nodes |-> {}, adj |-> <<>>, edges |-> {}]

HasEdge(g, u, v) == \E e \in g.edges : e.pair = Pair(u, v)

graph_add_node(g, n) ==
    IF n \in g.nodes THEN g
    ELSE [g EXCEPT !.nodes = @ \cup {n}, !.adj = @ @@ (n :> <<>>)]

\* Graph.add_edge(u, v, **attr): adds missing nodes; a new edge goes to the
\* end of both adjacency lists; an existing edge keeps its place and has its
\* data replaced by attr.
graph_add_edge(g, u, v, c, comps) ==
    LET g1 == graph_add_node(graph_add_node(g, u), v)
        adj1 == IF HasEdge(g1, u, v) THEN g1.adj
                ELSE IF u = v THEN [g1.adj EXCEPT ![u] = Append(@, u)]
                ELSE [g1.adj EXCEPT ![u] = Append(@, v), ![v] = Append(@, u)]
    IN  [g1 EXCEPT !.adj = adj1,
                   !.edges = {e \in @ : e.pair # Pair(u, v)}
                             \cup {[pair |-> Pair(u, v), connection |-> c,
                                    components |-> comps]}]

\* ConnectionGraph.add_connector
graph_add_connector(g, connector_id) == graph_add_node(g, connector_id)

\* ConnectionGraph.add_connection
graph_add_connection(g, connector_ids, c, comps) ==
    IF Len(connector_ids) = 2
    THEN graph_add_edge(g, connector_ids[1], connector_ids[2], c, comps)
    ELSE g

\* ConnectionGraph.remove_edge (the edge is known to exist where it is called)
graph_remove_edge(g, u, v) ==
    [g EXCEPT !.adj = [n \in g.nodes |->
                          IF n = u THEN ListRemove(g.adj[n], v)
                          ELSE IF n = v THEN ListRemove(g.adj[n], u)
                          ELSE g.adj[n]],
              !.edges = {e \in @ : e.pair # Pair(u, v)}]

\* ConnectionGraph.neighbors
graph_neighbors(g, n) == g.adj[n]

\* ConnectionGraph.edge(node_0, node_1)['connection']
graph_edge_connection(g, u, v) ==
    (CHOOSE e \in g.edges : e.pair = Pair(u, v)).connection

\* ConnectionGraph.as_dict: an entry for each edge of the graph
graph_as_dict(g) ==
    { [id |-> e.connection, connectors |-> e.pair, components |-> e.components] :
        e \in g.edges }

-----------------------------------------------------------------------------
(* Geometry *)

\* Squared distance between two grid points, in metres squared
Dist2(p, q) ==
    CellSize * CellSize * ((p[1]-q[1])*(p[1]-q[1]) + (p[2]-q[2])*(p[2]-q[2]))

NoDirection == <<0, 0>>

\* direction(coords): the tangent from coords[0] to coords[1].  The unit
\* vector (dx/m, dy/m) is represented by <<dx, dy>>; similar_direction
\* normalises.  A zero-length segment has no direction (None).
direction(coords) ==
    <<coords[2][1] - coords[1][1], coords[2][2] - coords[1][2]>>

Dot(a, b) == a[1]*b[1] + a[2]*b[2]

\* similar_direction: hypot(u0 + u1) > 1.93 for the unit vectors u0, u1.
\* |u0 + u1|^2 = 2 + 2 cos t, so the test is cos t > (1.93^2 - 2)/2 = 0.86245,
\* that is  dot > 0  and  dot^2 / (|d0|^2 |d1|^2) > 0.86245^2 = 0.7438200025.
\* With N = |d0|^2 |d1|^2 this is (100000 dot^2 - 74382 N) * 100000 > 25 N,
\* and as 25 N < 100000 for the vectors of this model, it is
\* 100000 dot^2 - 74382 N >= 1.
similar_direction(dirn_0, dirn_1) ==
    /\ dirn_0 # NoDirection
    /\ dirn_1 # NoDirection
    /\ Dot(dirn_0, dirn_1) > 0
    /\ 100000 * Dot(dirn_0, dirn_1) * Dot(dirn_0, dirn_1)
         - 74382 * Dot(dirn_0, dirn_0) * Dot(dirn_1, dirn_1) >= 1

\* geometry.bounds of a line: <<minx, miny, maxx, maxy>>
RECURSIVE CoordsBox(_, _)
CoordsBox(coords, k) ==
    IF k = 1 THEN <<coords[1][1], coords[1][2], coords[1][1], coords[1][2]>>
    ELSE LET b == CoordsBox(coords, k - 1)
         IN  <<Min(b[1], coords[k][1]), Min(b[2], coords[k][2]),
               Max(b[3], coords[k][1]), Max(b[4], coords[k][2])>>

\* Two bounding boxes intersect (STRtree.query without a predicate)
BoxesIntersect(a, b) ==
    a[1] <= b[3] /\ b[1] <= a[3] /\ a[2] <= b[4] /\ b[2] <= a[4]

\* The floor of the square root
RECURSIVE ISqrtBetween(_, _, _)
ISqrtBetween(n, lo, hi) ==
    IF hi - lo <= 1 THEN lo
    ELSE IF ((lo + hi) \div 2) * ((lo + hi) \div 2) <= n
    THEN ISqrtBetween(n, (lo + hi) \div 2, hi)
    ELSE ISqrtBetween(n, lo, (lo + hi) \div 2)

ISqrt(n) == ISqrtBetween(n, 0, 46341)

\* The distance between two grid points, to the metre
Length(p, q) == ISqrt(Dist2(p, q))

\* The part of the segment from p to q that lies between lo and hi on one
\* axis, as <<t0, t1, den>>: the parameters t0/den to t1/den of the segment
AxisRange(p, q, lo, hi) ==
    IF q = p THEN (IF lo <= p /\ p <= hi THEN <<0, 1, 1>> ELSE <<1, 0, 1>>)
    ELSE IF q > p THEN <<Max(lo - p, 0), Min(hi - p, q - p), q - p>>
    ELSE <<Max(p - hi, 0), Min(p - lo, p - q), p - q>>

\* The part <<num, den>> of the segment from p to q that lies in the box
ClippedPart(x, y) ==
    <<Max(Min(x[2] * y[3], y[2] * x[3]) - Max(x[1] * y[3], y[1] * x[3]), 0),
      x[3] * y[3]>>

InsidePart(p, q, box) ==
    ClippedPart(AxisRange(p[1], q[1], box[1], box[3]),
                AxisRange(p[2], q[2], box[2], box[4]))

\* component_geometry.intersection(connection.geometry).length for a
\* rectangular component, to the metre: the length of the first k segments
\* of the line that lies in the box
RECURSIVE IntersectionLength(_, _, _)
IntersectionLength(box, coords, k) ==
    IF k = 0 THEN 0
    ELSE IntersectionLength(box, coords, k - 1)
           + (Length(coords[k], coords[k+1])
                * InsidePart(coords[k], coords[k+1], box)[1])
                   \div InsidePart(coords[k], coords[k+1], box)[2]

\* coords[:2] and coords[-2:]
FirstTwo(coords) == <<coords[1], coords[2]>>
LastTwo(coords) == <<coords[Len(coords) - 1], coords[Len(coords)]>>

-----------------------------------------------------------------------------
(* components.py: enumerations and lookup tables *)

JOINING_CONNECTORS == {"CONNECTOR_JOINER", "CONNECTOR_THROUGH"}
NODE_CONNECTORS == {"CONNECTOR_NODE", "CONNECTOR_PORT"}

\* NEURON_KINDS.lookup(colour): the description of a neural connection
NEURON_KINDS(colour) ==
    IF colour = "red" THEN "sympathetic" ELSE "parasympathetic"

\* VASCULAR_KINDS.lookup(colour): red is arterial; no entry for green
VASCULAR_KINDS(colour) ==
    IF colour = "red" THEN "arterial" ELSE "None"

\* description.split('-')[0]
Branch(description) ==
    IF description \in {"sympathetic", "sympathetic-pre", "sympathetic-post"}
    THEN "sympathetic"
    ELSE IF description \in {"parasympathetic", "parasympathetic-pre",
                             "parasympathetic-post"}
    THEN "parasympathetic"
    ELSE description

\* f'{parts[0][:4]}-{parts[1]}' for a description with a '-', else itself
KindOf(description) ==
    CASE description = "sympathetic-pre" -> "symp-pre"
      [] description = "sympathetic-post" -> "symp-post"
      [] description = "parasympathetic-pre" -> "para-pre"
      [] description = "parasympathetic-post" -> "para-post"
      [] OTHER -> description

\* 'line-dash' if kind.endswith('-post') else 'line'
TypeOf(kind) == IF kind \in {"symp-post", "para-post"} THEN "line-dash" ELSE "line"

\* A Connection as constructed: FCShape defaults and empty id lists; the
\* wrapped shape brings its geometry, colour, line style and any
\* 'shape-type' property it already has.
\* properties['shape-type'] = shape_type, on the property bag of a shape or
\* of the shape a Connection wraps.  `type_assigned` counts the assignments
\* and `reassigned` tells whether one was made while the type was not UNKNOWN
set_shape_type(shape, shape_type) ==
    [shape EXCEPT !.shape_type = shape_type,
                  !.type_assigned = @ + 1,
                  !.reassigned = @ \/ shape.shape_type # "UNKNOWN"]

Connection(id, coords, colour, line_style, shape_type) ==
    [id |-> id, coords |-> coords, colour |-> colour, line_style |-> line_style,
     connector_ids |-> <<>>, intermediate_connectors |-> <<>>,
     fc_class |-> "UNKNOWN", fc_kind |-> "UNKNOWN", description |-> "",
     exclude |-> FALSE, kind |-> "", type |-> "",
     shape_type |-> shape_type, type_assigned |-> 0, reassigned |-> FALSE,
     connection_start |-> NoId, connection_end |-> NoId,
     error |-> ""]

\* A connector FCShape
Connector(id, fc_class, fc_kind, pos) ==
    [id |-> id, fc_class |-> fc_class, fc_kind |-> fc_kind, pos |-> pos,
     description |-> "", exclude |-> FALSE]

\* A component FCShape with a rectangular geometry; fc_long_side is None
\* (0 here) until add_component sets it
Component(id, fc_class, box) ==
    [id |-> id, fc_class |-> fc_class, box |-> box, fc_long_side |-> 0]

\* f'{connection.id}/{coord_index+1}': the id of a synthesized free-end
\* connector; registered connectors have ids below 10.
FreeEndId(connection_id, coord_index) == 10 * connection_id + coord_index + 1

-----------------------------------------------------------------------------
(* ConnectionClassifier *)

\* ConnectionClassifier.__init__
ConnectionClassifier ==
    [neural_graph |-> ConnectionGraph,
     vascular_graph |-> ConnectionGraph,
     connectors |-> <<>>,              \* id -> connector
     connector_geometries |-> <<>>,    \* ids, in registration order
     connector_index |-> FALSE,        \* None until built
     join_nodes |-> <<>>,
     component_geometries |-> <<>>,    \* components, in registration order
     component_index |-> FALSE,
     log |-> {}]

Log(c, level, what) == [c EXCEPT !.log = @ \cup {<<level, what>>}]

\* ConnectionClassifier.__add_connector_node
add_connector_node(c, connector) ==
    LET c1 == [c EXCEPT !.connectors = (connector.id :> connector) @@ @]
    IN  IF connector.fc_class = "NEURAL"
        THEN [c1 EXCEPT !.neural_graph = graph_add_connector(@, connector.id)]
        ELSE IF connector.fc_class = "VASCULAR"
        THEN [c1 EXCEPT !.vascular_graph = graph_add_connector(@, connector.id)]
        ELSE c1

\* ConnectionClassifier.as_dict
as_dict(c) ==
    [neural |-> graph_as_dict(c.neural_graph),
     vascular |-> graph_as_dict(c.vascular_graph)]

\* ConnectionClassifier.add_component, for a shape of cd_class COMPONENT:
\* 'fc-long-side' is the diagonal of the bounds
add_component(c, component) ==
    IF c.component_index
    THEN Log(c, "error", "Cannot add components once connections are added")
    ELSE [c EXCEPT !.component_geometries =
             Append(@, [component EXCEPT !.fc_long_side =
                           Length(<<component.box[1], component.box[2]>>,
                                  <<component.box[3], component.box[4]>>)])]

\* ConnectionClassifier.add_connector, for a shape of cd_class CONNECTOR
add_connector(c, connector) ==
    IF c.connector_index
    THEN Log(c, "error", "Cannot add connectors once connections are added")
    ELSE add_connector_node(
            [c EXCEPT !.connector_geometries = Append(@, connector.id)],
            connector)

\* ConnectionClassifier.__check_indexes
check_indexes(c) ==
    LET c1 == IF c.component_index THEN c
              ELSE IF Len(c.component_geometries) = 0
              THEN Log(c, "warning", "No components to connect to...")
              ELSE [c EXCEPT !.component_index = TRUE]
    IN  IF c1.connector_index THEN c1
        ELSE IF Len(c1.connector_geometries) = 0
        THEN Log(c1, "warning", "No connectors to connect to...")
        ELSE [c1 EXCEPT !.connector_index = TRUE]

\* ConnectionClassifier.__closest_connector_id: the nearest indexed connector
\* if it is closer than MAX_CONNECTION_GAP, else None.  Connectors are at
\* distinct points, so a tie for nearest is at a distance that fails the gap
\* test whichever of the tied connectors the index returns.
closest_connector_id(c, point) ==
    IF ~c.connector_index THEN NoId
    ELSE LET ids == {c.connector_geometries[i] : i \in 1..Len(c.connector_geometries)}
             closest == CHOOSE i \in ids :
                           \A j \in ids : Dist2(c.connectors[i].pos, point)
                                            <= Dist2(c.connectors[j].pos, point)
         IN  IF Dist2(c.connectors[closest].pos, point)
                   < MAX_CONNECTION_GAP * MAX_CONNECTION_GAP
             THEN closest
             ELSE NoId

\* ConnectionClassifier.__crossed_component: the ids of the indexed
\* components of the connection's class in which more of the line lies than
\* the component's long side; none while there is no component index.
crossed_component(c, connection) ==
    IF ~c.component_index THEN {}
    ELSE { c.component_geometries[i].id :
             i \in { j \in 1..Len(c.component_geometries) :
                       /\ BoxesIntersect(c.component_geometries[j].box,
                                         CoordsBox(connection.coords,
                                                   Len(connection.coords)))
                       /\ connection.fc_class = c.component_geometries[j].fc_class
                       /\ IntersectionLength(c.component_geometries[j].box,
                                             connection.coords,
                                             Len(connection.coords) - 1)
                            > c.component_geometries[j].fc_long_side } }

\* Lines 307-329 of add_connection: orient the new connection (join0, whose
\* end coord_index is at the join connector) and the recorded one (join1) so
\* that they meet at the join point; their tangents there, and the two
\* coordinate lists in joining order.
JoinGeometry(join0_coords, coord_index, join1_coords) ==
    LET end_point == IF coord_index = 0 THEN join0_coords[1] ELSE Last(join0_coords)
        join0_dirn == IF coord_index = 0 THEN direction(FirstTwo(join0_coords))
                      ELSE direction(LastTwo(join0_coords))
    IN  IF Dist2(end_point, join1_coords[1]) < Dist2(end_point, Last(join1_coords))
        THEN IF coord_index = 0
             THEN \* join_connection start + connection start
                  [join0_dirn |-> join0_dirn,
                   join1_dirn |-> direction(LastTwo(Reversed(join1_coords))),
                   coordinates |-> Reversed(join1_coords) \o join0_coords]
             ELSE \* connection end + join_connection start
                  [join0_dirn |-> join0_dirn,
                   join1_dirn |-> direction(FirstTwo(join1_coords)),
                   coordinates |-> join0_coords \o join1_coords]
        ELSE IF coord_index = 0
             THEN \* join_connection end + connection start
                  [join0_dirn |-> join0_dirn,
                   join1_dirn |-> direction(LastTwo(join1_coords)),
                   coordinates |-> join1_coords \o join0_coords]
             ELSE \* connection end + join_connection end
                  [join0_dirn |-> join0_dirn,
                   join1_dirn |-> direction(FirstTwo(Reversed(join1_coords))),
                   coordinates |-> join0_coords \o Reversed(join1_coords)]

\* Lines 331-342 of add_connection: the accepted splice of connection cid
\* with the recorded connection jid at connector_id.  st is the state of the
\* call: the classifier, the connections, whether it has raised, and the
\* record of what it did.
Splice(st, cid, jid, connector_id, neighbour, coord_index, coordinates) ==
    LET connector == st.cc.connectors[connector_id]
        st1 == [st EXCEPT !.cc.neural_graph =
                              graph_remove_edge(@, connector_id, neighbour)]
        join_ids == ListRemove(st.conns[jid].connector_ids, connector_id)
        event == [connector |-> connector_id, kind |-> connector.fc_kind,
                  neighbours |-> Len(graph_neighbors(st.cc.neural_graph,
                                                     connector_id)),
                  old |-> jid, old_before |-> st.conns[jid],
                  new_before |-> st.conns[cid],
                  other |-> Last(join_ids), coord_index |-> coord_index,
                  coordinates |-> coordinates]
    IN  IF connector.fc_kind = "CONNECTOR_THROUGH"
        THEN \* connection.intermediate_connectors.append[connector.id]
             \* subscripts a bound method: TypeError
             [st1 EXCEPT !.raised = TRUE,
                         !.failed = Append(@, event)]
        ELSE [st1 EXCEPT
                !.cc.connectors[connector_id].exclude =
                    IF connector.fc_kind = "CONNECTOR_JOINER" THEN TRUE ELSE @,
                !.cc.join_nodes = ListRemove(@, connector_id),
                !.conns[jid].exclude = TRUE,
                !.conns[jid].connector_ids = SubSeq(join_ids, 1, Len(join_ids) - 1),
                !.conns[cid].coords = coordinates,
                !.conns[cid].connector_ids =
                    Append(ListRemove(@, connector_id), Last(join_ids)),
                !.splices = Append(@, event)]

\* Lines 295-345 of add_connection: one pass of the loop over
\* connected_end_ids, for the new connection cid whose end coord_index
\* resolved to connector_id.
JoinStep(st, cid, connector_id, coord_index) ==
    IF st.raised THEN st
    ELSE
    LET connector == st.cc.connectors[connector_id]
        connection == st.conns[cid]
    IN  IF connector.fc_kind \notin JOINING_CONNECTORS THEN st
        ELSE IF ~InSeq(connector_id, st.cc.join_nodes)
        THEN [st EXCEPT !.cc.join_nodes = Append(@, connector_id)]
        ELSE IF connector_id \notin st.cc.neural_graph.nodes
        THEN [st EXCEPT !.raised = TRUE]      \* neighbors() of a missing node
        ELSE
        LET neighbours == graph_neighbors(st.cc.neural_graph, connector_id)
        IN  IF Len(neighbours) = 0
            THEN \* line 344: the elif of `if len(neighbours)`
                 IF Len(neighbours) > 1
                 THEN [st EXCEPT !.cc = Log(@, "error",
                                            "Connector has too many edges from it")]
                 ELSE st
            ELSE
            LET jid == graph_edge_connection(st.cc.neural_graph,
                                             connector_id, neighbours[1])
                join_connection == st.conns[jid]
                attempt == [connector |-> connector_id, old |-> jid,
                            neighbours |-> Len(neighbours),
                            old_before |-> join_connection,
                            connector_before |-> connector]
            IN  IF Branch(join_connection.description) # Branch(connection.description)
                THEN [st EXCEPT !.cc = Log(@, "error", "Neuron connections cannot be joined"),
                                !.rejects = Append(@, attempt)]
                ELSE IF join_connection.description # connection.description
                THEN [st EXCEPT !.rejects = Append(@, attempt)]
                ELSE
                LET j == JoinGeometry(connection.coords, coord_index,
                                      join_connection.coords)
                IN  IF similar_direction(j.join0_dirn, j.join1_dirn)
                    THEN Splice(st, cid, jid, connector_id, neighbours[1],
                                coord_index, j.coordinates)
                    ELSE [st EXCEPT !.rejects = Append(@, attempt)]

\* Lines 217-229: the connector found at each end of the line, NoId where
\* there is none
find_end_connectors(c, new) ==
    <<closest_connector_id(c, new.coords[1]),
      closest_connector_id(c, Last(new.coords))>>

\* the ids of the free-end connectors made at lines 226-228
free_end_ids(found, cid) ==
    (IF found[1] = NoId THEN <<FreeEndId(cid, 0)>> ELSE <<>>)
        \o (IF found[2] = NoId THEN <<FreeEndId(cid, -1)>> ELSE <<>>)

\* connected_end_ids as line 254 leaves it: the connectors found, then the
\* free ends
end_ids(found, cid) ==
    SelectSeq(found, LAMBDA id : id # NoId) \o free_end_ids(found, cid)

\* connection_end_index[connector_id]: the later end wins when both ends
\* have one id
connection_end_index(found, cid, connector_id) ==
    IF connector_id = (IF found[2] # NoId THEN found[2] ELSE FreeEndId(cid, -1))
    THEN -1 ELSE 0

\* Lines 251-254 for one free end
add_free_end(c, id, fc_class, pos) ==
    add_connector_node(c, Connector(id, fc_class, "CONNECTOR_FREE_END", pos))

\* Lines 247-254: a single free end takes the class of the other end, two
\* free ends keep the class UNKNOWN
add_free_end_connectors(c, found, new) ==
    IF found[1] # NoId /\ found[2] # NoId THEN c
    ELSE IF found[1] = NoId /\ found[2] = NoId
    THEN add_free_end(
            add_free_end(Log(c, "warning", "Connection has unconnected end(s)"),
                         FreeEndId(new.id, 0), "UNKNOWN", new.coords[1]),
            FreeEndId(new.id, -1), "UNKNOWN", Last(new.coords))
    ELSE IF found[1] = NoId
    THEN add_free_end(Log(c, "warning", "Connection has unconnected end(s)"),
                      FreeEndId(new.id, 0), c.connectors[found[2]].fc_class,
                      new.coords[1])
    ELSE add_free_end(Log(c, "warning", "Connection has unconnected end(s)"),
                      FreeEndId(new.id, -1), c.connectors[found[1]].fc_class,
                      Last(new.coords))

\* lookup_table.lookup(connection.colour) for the table of the class
looked_up(fc_class, new) ==
    IF fc_class = "NEURAL" THEN NEURON_KINDS(new.colour)
    ELSE IF fc_class = "VASCULAR" THEN VASCULAR_KINDS(new.colour)
    ELSE new.description

\* Lines 275-278: the description of a neuron, with '-pre' or '-post'
ganglionic(line_style, kind) ==
    IF kind \notin {"sympathetic", "parasympathetic"} THEN kind
    ELSE IF line_style \in {"dash", "dot"}
    THEN (IF kind = "sympathetic" THEN "sympathetic-pre" ELSE "parasympathetic-pre")
    ELSE (IF kind = "sympathetic" THEN "sympathetic-post" ELSE "parasympathetic-post")

description_of(fc_class, new) ==
    IF fc_class = "NEURAL" THEN ganglionic(new.line_style, looked_up(fc_class, new))
    ELSE looked_up(fc_class, new)

kind_of(fc_class, new) ==
    IF fc_class = "NEURAL" THEN KindOf(description_of(fc_class, new))
    ELSE IF fc_class = "VASCULAR" THEN description_of(fc_class, new)
    ELSE new.kind

\* Lines 256-291: the connection with its ends, class, description, kind
\* and type
classified_connection(new, ends, fc_class) ==
    [new EXCEPT !.connector_ids = @ \o ends,
                !.fc_class = fc_class,
                !.fc_kind = IF fc_class = "NEURAL" THEN "NEURON" ELSE @,
                !.description = description_of(fc_class, new),
                !.kind = kind_of(fc_class, new),
                !.type = IF fc_class = "NEURAL" THEN TypeOf(kind_of(fc_class, new))
                         ELSE IF fc_class = "VASCULAR" THEN "line"
                         ELSE @]

\* Lines 261-262
check_compatible(c, connector, connector_1) ==
    IF connector.fc_class # connector_1.fc_class
    THEN Log(c, "error", "Connection ends aren't compatible")
    ELSE c

\* check_and_set_description, lines 268-270
check_description(c, connector, new) ==
    IF /\ connector.fc_class \in {"NEURAL", "VASCULAR"}
       /\ connector.fc_kind \in NODE_CONNECTORS
       /\ looked_up(connector.fc_class, new) # connector.description
    THEN Log(c, "error", "Connection colour doesn't match connector")
    ELSE c

\* Lines 256-291: the classifier and the connections once the new
\* connection has its ends, class and description
set_class_and_description(c, conns_in, new, ends) ==
    [cc |-> check_description(
                check_compatible(c, c.connectors[ends[1]], c.connectors[ends[2]]),
                c.connectors[ends[1]], new),
     conns |-> Append(conns_in,
                      classified_connection(new, ends, c.connectors[ends[1]].fc_class)),
     raised |-> FALSE, splices |-> <<>>, rejects |-> <<>>, failed |-> <<>>]

\* Lines 292-345: attempt to join neuron segments, at each end in turn
join_neuron_segments(st, cid, found, ends) ==
    IF st.conns[cid].fc_class # "NEURAL" THEN st
    ELSE JoinStep(JoinStep(st, cid, ends[1],
                           connection_end_index(found, cid, ends[1])),
                  cid, ends[2], connection_end_index(found, cid, ends[2]))

\* Lines 348-353: the graph of the connection's class gets the connection
add_to_graph(c, connection) ==
    IF connection.fc_class = "NEURAL"
    THEN [c EXCEPT !.neural_graph =
             graph_add_connection(@, connection.connector_ids, connection.id,
                                  crossed_component(c, connection))]
    ELSE IF connection.fc_class = "VASCULAR"
    THEN [c EXCEPT !.vascular_graph =
             graph_add_connection(@, connection.connector_ids, connection.id,
                                  crossed_component(c, connection))]
    ELSE c

\* the record of a call kept for the claims
call_record(st, new, found) ==
    [connection |-> new.id, ends |-> end_ids(found, new.id),
     free |-> Len(free_end_ids(found, new.id)),
     fc_class |-> st.conns[new.id].fc_class,
     coords |-> new.coords, had_type |-> new.shape_type,
     error |-> st.conns[new.id].error,
     splices |-> st.splices, rejects |-> st.rejects,
     failed |-> st.failed, raised |-> st.raised]

\* Lines 348-365, unless the call has raised
finish_connection(st, new, found) ==
    IF st.raised
    THEN [cc |-> st.cc, conns |-> st.conns, raised |-> TRUE,
          call |-> call_record(st, new, found)]
    ELSE [cc |-> add_to_graph(st.cc, st.conns[new.id]),
          conns |-> [st.conns EXCEPT ![new.id] = set_shape_type(@, "connection")],
          raised |-> FALSE,
          call |-> call_record(st, new, found)]

\* check_powerpoint_connection_end, lines 233-238: what is wrong with the
\* end the drawing names, "" when nothing is
end_fault(c, found, connection_id) ==
    IF connection_id = NoId THEN ""
    ELSE IF connection_id \notin DOMAIN c.connectors THEN "is unknown"
    ELSE IF connection_id \notin {found[1], found[2]} THEN "isn't at end"
    ELSE ""

\* Lines 233-236: the error logged for an end
log_end_fault(c, fault) ==
    IF fault = "" THEN c
    ELSE IF fault = "is unknown" THEN Log(c, "error", "Connection end is unknown")
    ELSE Log(c, "error", "Connection end isn't at end")

\* Line 240 prints the connector of connected_end_ids[0], which holds the
\* connectors found so far: with none found the subscript raises IndexError
end_check_raises(c, found, connection_id) ==
    /\ end_fault(c, found, connection_id) # ""
    /\ found[1] = NoId
    /\ found[2] = NoId

\* Lines 242-243: the classifier after the checks of 'connection-start' and
\* 'connection-end'; the second is not reached when the first raises
check_powerpoint_connection_ends(c, found, new) ==
    IF end_check_raises(c, found, new.connection_start)
    THEN log_end_fault(c, end_fault(c, found, new.connection_start))
    ELSE log_end_fault(
            log_end_fault(c, end_fault(c, found, new.connection_start)),
            end_fault(c, found, new.connection_end))

\* Line 239: the connection after the checks
with_end_error(c, found, new) ==
    IF \/ end_fault(c, found, new.connection_start) # ""
       \/ end_fault(c, found, new.connection_end) # ""
    THEN [new EXCEPT !.error = "Powerpoint connection"]
    ELSE new

\* add_connection once the ends have been looked up and checked
resolve_ends(c, conns_in, new, found) ==
    finish_connection(
        join_neuron_segments(
            set_class_and_description(add_free_end_connectors(c, found, new),
                                      conns_in, new, end_ids(found, new.id)),
            new.id, found, end_ids(found, new.id)),
        new, found)

\* add_connection once the ends have been looked up: lines 231-365
connect_ends(c, conns_in, new, found) ==
    IF \/ end_check_raises(c, found, new.connection_start)
       \/ end_check_raises(c, found, new.connection_end)
    THEN finish_connection(
            [cc |-> check_powerpoint_connection_ends(c, found, new),
             conns |-> Append(conns_in, with_end_error(c, found, new)),
             raised |-> TRUE, splices |-> <<>>, rejects |-> <<>>,
             failed |-> <<>>],
            new, found)
    ELSE resolve_ends(check_powerpoint_connection_ends(c, found, new),
                      conns_in, with_end_error(c, found, new), found)

\* ConnectionClassifier.add_connection, for the new Connection object `new`
\* (not seen before).  The result holds the classifier and the connections
\* as the call leaves them, whether it raised, and a record of the call.
add_connection(c_in, conns_in, new) ==
    connect_ends(check_indexes(c_in), conns_in, new,
                 find_end_connectors(check_indexes(c_in), new))

-----------------------------------------------------------------------------
(* Inputs *)

\* Where connectors may be drawn, in grid cells
ConnectorSites == {<<1, 0>>, <<2, 0>>}

\* The connectors that may be registered: their domain class and kind
ConnectorTypes ==
    { <<"NEURAL", "CONNECTOR_JOINER">>, <<"NEURAL", "CONNECTOR_THROUGH">>,
      <<"VASCULAR", "CONNECTOR_NODE">> }

\* The components that may be registered: their domain class and bounds.
\* The diagonal of the box is 2.24 cells; the folded line from <<2, 0>> by
\* <<0, 0>> to <<1, 0>> has 3 cells of its length in it.
ComponentTypes == { <<"NEURAL", <<0, 0, 2, 1>> >> }

\* The ends a drawing may name, as <<'connection-start', 'connection-end'>>:
\* connector 1 is the first one registered, connector 2 the second, and no
\* connector has the id 9
EndHints == { <<1, NoId>>, <<9, NoId>>, <<NoId, 2>> }

Line(coords, colour, line_style) ==
    [coords |-> coords, colour |-> colour, line_style |-> line_style]

\* The connection lines that may be drawn.  From the site <<1, 0>> the
\* tangent <<1, 0>> continues as <<1, 0>> (0 degrees), <<2, 1>> (26.6
\* degrees), <<1, 1>> (45 degrees) or folds back as <<-1, 0>>.
Lines ==
    { Line(<< <<0, 0>>, <<1, 0>> >>, "red", "solid"),
      Line(<< <<1, 0>>, <<2, 0>> >>, "red", "solid"),
      Line(<< <<2, 0>>, <<1, 0>> >>, "red", "solid"),
      Line(<< <<1, 0>>, <<2, 0>> >>, "red", "dash"),
      Line(<< <<1, 0>>, <<2, 0>> >>, "green", "solid"),
      Line(<< <<1, 0>>, <<2, 1>> >>, "red", "solid"),
      Line(<< <<1, 0>>, <<3, 1>> >>, "red", "solid"),
      Line(<< <<2, 0>>, <<3, 0>> >>, "red", "solid"),
      Line(<< <<0, 0>>, <<2, 1>> >>, "red", "solid"),
      Line(<< <<1, 0>>, <<2, 1>>, <<1, 0>> >>, "red", "solid"),
      Line(<< <<2, 0>>, <<0, 0>>, <<1, 0>> >>, "red", "solid") }

\* The neuron segments that may be drawn at the joiner sites.  The first
\* arrives at <<1, 0>> with the tangent <<1, 0>>; the others leave it straight
\* on, dashed at 45 degrees, at 26.6 degrees and at 45 degrees; the last
\* leaves <<2, 0>> straight on.
JoinLines ==
    { Line(<< <<0, 0>>, <<1, 0>> >>, "red", "solid"),
      Line(<< <<1, 0>>, <<2, 0>> >>, "red", "solid"),
      Line(<< <<1, 0>>, <<2, 1>> >>, "red", "dash"),
      Line(<< <<1, 0>>, <<3, 1>> >>, "red", "solid"),
      Line(<< <<1, 0>>, <<2, 1>> >>, "red", "solid"),
      Line(<< <<2, 0>>, <<3, 0>> >>, "red", "solid") }

-----------------------------------------------------------------------------
(* Shapes and their geometry, as the ShapeClassifier sees them.  A polygon  *)
(* is given by its bounding box <<x0, y0, x1, y1>>, its area, the number of *)
(* coordinates of its boundary ring, its perimeter (in hundredths) and an   *)
(* inscribed box (`core`); a line by its coordinates.  Lengths are in       *)
(* pixels, metres_per_pixel being 1.                                        *)

NoBox == <<0, 0, 0, 0>>

\* `centreline` is the line the LineFinder extracts from the polygon (<<>>
\* when it finds none)
Polygon(geom_type, box, core, area, ncoords, perimeter, centreline) ==
    [geom_type |-> geom_type, box |-> box, core |-> core, area |-> area,
     ncoords |-> ncoords, perimeter |-> perimeter, coords |-> <<>>,
     centreline |-> centreline]

Rectangle(box) ==
    Polygon("Polygon", box, box, (box[3] - box[1]) * (box[4] - box[2]), 5,
            200 * ((box[3] - box[1]) + (box[4] - box[2])), <<>>)

LineString(coords) ==
    [geom_type |-> "LineString", box |-> CoordsBox(coords, Len(coords)),
     core |-> NoBox, area |-> 0, ncoords |-> 0, perimeter |-> 0,
     coords |-> coords, centreline |-> <<>>]

\* geometry.buffer(distance) of a polygon: the bounds grow by the distance
\* on every side, the area by perimeter*distance + pi*distance^2, the
\* boundary is no longer a ring of 4 coordinates, and a box inscribed in
\* the polygon may grow by any d with d*sqrt(2) <= distance.
buffer(geometry, distance) ==
    LET b == geometry.box
        c == geometry.core
        d == (distance * 7) \div 10
    IN  [geometry EXCEPT
            !.box = <<b[1] - distance, b[2] - distance,
                      b[3] + distance, b[4] + distance>>,
            !.core = IF c = NoBox THEN NoBox
                     ELSE <<c[1] - d, c[2] - d, c[3] + d, c[4] + d>>,
            !.area = (100 * @ + geometry.perimeter * distance
                          + 314 * distance * distance) \div 100,
            !.ncoords = @ + 64,
            !.perimeter = @ + 628 * distance]

\* STRtree.query(geometry, predicate='contains_properly'): every point of
\* the other geometry is interior to this one
contains_properly(geometry, other) ==
    /\ geometry.core # NoBox
    /\ geometry.core[1] < other.box[1]
    /\ geometry.core[2] < other.box[2]
    /\ other.box[3] < geometry.core[3]
    /\ other.box[4] < geometry.core[4]

\* The squared distance from a point to a geometry's bounding box
BoxDist2(p, box) ==
    LET dx == Max(Max(box[1] - p[1], p[1] - box[3]), 0)
        dy == Max(Max(box[2] - p[2], p[2] - box[4]), 0)
    IN  dx * dx + dy * dy

-----------------------------------------------------------------------------
(* mapmaker.shapes.Shape: a geometry, a property bag and a parent link *)

NoParent == 0

Shape(id, shape_type, geometry, fill, stroke, directional) ==
    [id |-> id, shape_type |-> shape_type, geometry |-> geometry,
     exclude |-> FALSE, parent |-> NoParent,
     fill |-> fill, stroke |-> stroke, colour |-> "None",
     stroke_width |-> "None", kind |-> "None", type |-> "None",
     label |-> "None", directional |-> directional,
     type_assigned |-> 0, reassigned |-> FALSE]

\* Shape.add_parent(parent)
add_parent(child, parent) == [child EXCEPT !.parent = parent.id]

\* LineFinder.get_line(shape): the centreline of a polygon, or None (<<>>)
get_line(shape) == shape.geometry.centreline

-----------------------------------------------------------------------------
(* ShapeClassifier *)

\* metres_per_pixel*MAX_LINE_WIDTH
max_line_width == 2

\* the map_area passed to the constructor
map_area == 100000

\* The object under construction: the shapes (mutated in place), the
\* registered connection ends, the joiner candidates, the geometries
\* collected for the containment index, each with the shape it maps to
\* (positions in the list of shapes stand for object identity), and the
\* children add_parent was called on, in order
ShapeClassifier(shapes, authoring) ==
    [shapes |-> shapes, authoring |-> authoring,
     connection_ends |-> <<>>, connection_joiners |-> <<>>,
     joined_connection_graph |-> {},
     geometries |-> <<>>, parents_added |-> <<>>, raised |-> FALSE]

\* __append_connection_ends: the end circle is the end point buffered by
\* max_line_width; it is kept as its centre
append_connection_ends(sc, end, n, index) ==
    [sc EXCEPT !.connection_ends = Append(@, [shape |-> n, index |-> index, end |-> end])]

\* __add_connection(shape) for the n-th shape: the classifier after the
\* call, and the value returned
add_shape_connection(sc, n) ==
    LET shape == sc.shapes[n]
        is_polygon == shape.geometry.geom_type \in {"Polygon", "MultiPolygon"}
        line == get_line(shape)
    IN  IF is_polygon /\ line = <<>>
        THEN [sc |-> [sc EXCEPT !.shapes[n].exclude = ~sc.authoring,
                                !.shapes[n].colour = "yellow"],
              ok |-> FALSE]
        ELSE
        LET geometry == IF is_polygon THEN LineString(line) ELSE shape.geometry
            kind == VASCULAR_KINDS(IF is_polygon THEN shape.fill ELSE shape.stroke)
            sc1 == append_connection_ends(sc, geometry.coords[1], n, 0)
            sc2 == append_connection_ends(sc1, Last(geometry.coords), n, -1)
            typed == set_shape_type(
                        [shape EXCEPT !.geometry = geometry,
                                      !.kind = IF kind # "None" THEN kind ELSE @],
                        "CONNECTION")
        IN  [sc |-> [sc2 EXCEPT !.shapes[n] =
                        [typed EXCEPT !.stroke_width = "CONNECTION_STROKE_WIDTH",
                                      !.type = "line"]],
             ok |-> TRUE]

\* The features of lines 108-119 as the comparisons the decision tree makes
\* of them, in integers:  bbox_coverage = width*height/map_area,
\* coverage = area/(width*height) (1 for a degenerate box),
\* aspect = min/max (0 for a degenerate box)
Width(geometry) == geometry.box[3] - geometry.box[1]
Height(geometry) == geometry.box[4] - geometry.box[2]
Degenerate(geometry) == ~(Width(geometry) > 0 /\ Height(geometry) > 0)

\* bbox_coverage > num/den  and  bbox_coverage < num/den
BBoxCoverageAbove(g, num, den) == den * Width(g) * Height(g) > num * map_area
BBoxCoverageBelow(g, num, den) == den * Width(g) * Height(g) < num * map_area

\* coverage > num/den  and  coverage < num/den
CoverageAbove(g, num, den) ==
    IF Degenerate(g) THEN den > num
    ELSE den * g.area > num * Width(g) * Height(g)
CoverageBelow(g, num, den) ==
    IF Degenerate(g) THEN den < num
    ELSE den * g.area < num * Width(g) * Height(g)

\* aspect > num/den
AspectAbove(g, num, den) ==
    /\ ~Degenerate(g)
    /\ den * Min(Width(g), Height(g)) > num * Max(Width(g), Height(g))

\* Lines 126-145: the decision tree for the n-th shape, whose type is UNKNOWN
DecisionTree(sc, n) ==
    LET shape == sc.shapes[n]
        g == shape.geometry
    IN  IF BBoxCoverageAbove(g, 1, 1000) /\ g.geom_type = "MultiPolygon"
        THEN [sc EXCEPT !.shapes[n] = set_shape_type(shape, "BOUNDARY")]
        ELSE IF /\ n < Len(sc.shapes)
                /\ sc.shapes[n + 1].shape_type = "TEXT"
                /\ CoverageBelow(g, 1, 2)
                /\ BBoxCoverageBelow(g, 1, 1000)
        THEN [sc EXCEPT !.shapes[n].exclude = TRUE]
        ELSE IF CoverageBelow(g, 4, 10) \/ g.geom_type = "LineString"
        THEN add_shape_connection(sc, n).sc
        ELSE IF BBoxCoverageAbove(g, 1, 1000) /\ CoverageAbove(g, 9, 10)
        THEN [sc EXCEPT !.shapes[n] = set_shape_type(shape, "CONTAINER")]
        ELSE IF /\ BBoxCoverageBelow(g, 5, 10000)
                /\ AspectAbove(g, 9, 10)
                /\ CoverageAbove(g, 7, 10)
                /\ ~CoverageAbove(g, 85, 100)
        THEN [sc EXCEPT !.shapes[n] = set_shape_type(shape, "COMPONENT")]
        ELSE IF BBoxCoverageBelow(g, 1, 1000) /\ CoverageAbove(g, 85, 100)
        THEN [sc EXCEPT !.shapes[n] = set_shape_type(shape, "COMPONENT")]
        ELSE IF g.geom_type = "MultiPolygon"
        THEN \* the boundary of a MultiPolygon has no coords: NotImplementedError
             [sc EXCEPT !.raised = TRUE]
        ELSE IF g.ncoords = 4
        THEN [sc EXCEPT !.connection_joiners = Append(@, n)]
        ELSE LET r == add_shape_connection(sc, n)
             IN  IF r.ok THEN r.sc
                 ELSE [r.sc EXCEPT !.shapes[n].colour = "yellow"]

\* A loop that runs the decision tree whatever the type of the shape
VisitShape_unguarded(sc, n) ==
    IF sc.raised THEN sc
    ELSE
    LET sc1 == DecisionTree(sc, n)
        shape == sc1.shapes[n]
    IN  IF sc1.raised \/ shape.exclude \/ shape.shape_type = "CONNECTION"
        THEN sc1
        ELSE [sc1 EXCEPT
                !.geometries = Append(@, [shape |-> n, geometry |-> shape.geometry]),
                !.shapes[n].stroke_width = "COMPONENT_BORDER_WIDTH"]

\* Lines 107-151: one pass of the constructor's loop over the shapes
VisitShape(sc, n) ==
    IF sc.raised THEN sc
    ELSE
    LET sc1 == IF sc.shapes[n].shape_type = "UNKNOWN"
               THEN DecisionTree(sc, n) ELSE sc
        shape == sc1.shapes[n]
    IN  IF sc1.raised \/ shape.exclude \/ shape.shape_type = "CONNECTION"
        THEN sc1
        ELSE [sc1 EXCEPT
                !.geometries = Append(@, [shape |-> n, geometry |-> shape.geometry]),
                !.shapes[n].stroke_width = "COMPONENT_BORDER_WIDTH"]

RECURSIVE VisitShapes(_, _)
VisitShapes(sc, n) ==
    IF n = 0 THEN sc ELSE VisitShape(VisitShapes(sc, n - 1), n)

\* STRtree(connection_ends).query_nearest(geometry): the indices of the end
\* circles at the least distance from the geometry, all of them when
\* several are equally near (every circle that touches it is at distance 0)
EndDistance(end, geometry) ==
    LET d2 == BoxDist2(end, geometry.box)
    IN  IF d2 <= max_line_width * max_line_width THEN 0 ELSE d2

query_nearest(connection_ends, geometry) ==
    LET near == {i \in 1..Len(connection_ends) :
                    \A j \in 1..Len(connection_ends) :
                        EndDistance(connection_ends[i].end, geometry)
                            <= EndDistance(connection_ends[j].end, geometry)}
    IN  [k \in 1..Cardinality(near) |->
            CHOOSE i \in near : Cardinality({j \in near : j < i}) = k - 1]

\* LineString.end_line(end): the first or the last segment
end_line(coords, end) ==
    IF end = 0 THEN FirstTwo(coords) ELSE LastTwo(coords)

\* Line.intersection(other, extend=True): the point where the two lines,
\* extended, meet; None (<<>>) when they are parallel
intersection(l0, l1) ==
    LET d0 == direction(l0)
        d1 == direction(l1)
        det == d0[1] * d1[2] - d0[2] * d1[1]
        ex == l1[1][1] - l0[1][1]
        ey == l1[1][2] - l0[1][2]
        t == ex * d1[2] - ey * d1[1]
    IN  IF det = 0 THEN <<>>
        ELSE <<l0[1][1] + (t * d0[1]) \div det, l0[1][2] + (t * d0[2]) \div det>>

SetEnd(coords, index, pt) ==
    IF index = 0 THEN [coords EXCEPT ![1] = pt]
    ELSE [coords EXCEPT ![Len(coords)] = pt]

\* __extend_joined_connections(ends): the shapes after the call
extend_joined_connections(sc, ends) ==
    LET c0 == sc.connection_ends[ends[1]]
        c1 == sc.connection_ends[ends[2]]
        l0 == sc.shapes[c0.shape].geometry.coords
        l1 == sc.shapes[c1.shape].geometry.coords
        pt == intersection(end_line(l0, c0.index), end_line(l1, c1.index))
    IN  IF pt = <<>> THEN sc
        ELSE LET sc1 == [sc EXCEPT !.shapes[c0.shape].geometry =
                                        LineString(SetEnd(l0, c0.index, pt))]
             IN  [sc1 EXCEPT !.shapes[c1.shape].geometry =
                                        LineString(SetEnd(l1, c1.index, pt))]

\* A joiner loop that leaves every candidate as it is
ResolveJoiner_unflagged(r, n) == [sc |-> r.sc, joined |-> r.joined]

\* Lines 156-166: one joiner candidate; `joined` collects the edges of
\* joined_connection_graph
ResolveJoiner(r, n) ==
    LET sc == r.sc
        ends == query_nearest(sc.connection_ends, sc.shapes[n].geometry)
    IN  IF Len(ends) = 2
        THEN LET sc1 == [sc EXCEPT !.shapes[n].exclude = TRUE]
             IN  [sc |-> extend_joined_connections(sc1, ends),
                  joined |-> r.joined \cup
                      {{sc.connection_ends[ends[1]].shape,
                        sc.connection_ends[ends[2]].shape}}]
        ELSE [sc |-> [sc EXCEPT
                        !.shapes[n].colour = "yellow",
                        !.shapes[n].stroke = "red",
                        !.shapes[n].stroke_width = "COMPONENT_BORDER_WIDTH",
                        !.shapes[n].geometry = buffer(@, max_line_width)],
              joined |-> r.joined]

RECURSIVE ResolveJoiners(_, _)
ResolveJoiners(sc, k) ==
    IF k = 0 THEN [sc |-> sc, joined |-> {}]
    ELSE ResolveJoiner(ResolveJoiners(sc, k - 1), sc.connection_joiners[k])

\* Lines 155-166: the classifier after the loop over the joiner candidates,
\* with the edges of joined_connection_graph
resolve_joiners(sc) ==
    [ResolveJoiners(sc, Len(sc.connection_joiners)).sc EXCEPT
        !.joined_connection_graph =
            ResolveJoiners(sc, Len(sc.connection_joiners)).joined]

\* nx.connected_components(joined_connection_graph): the shapes reachable
\* from n over the edges
RECURSIVE Reach(_, _)
Reach(joined, seen) ==
    LET more == seen \cup UNION {e \in joined : e \cap seen # {}}
    IN  IF more = seen THEN seen ELSE Reach(joined, more)

connected_components(joined) ==
    {Reach(joined, e) : e \in joined}

\* Two lines that share an end point, as one line
Joinable(a, b) ==
    \/ Last(a) = b[1] \/ Last(a) = Last(b) \/ a[1] = Last(b) \/ a[1] = b[1]

Join(a, b) ==
    IF Last(a) = b[1] THEN a \o Tail(b)
    ELSE IF Last(a) = Last(b) THEN a \o Tail(Reversed(b))
    ELSE IF a[1] = Last(b) THEN b \o Tail(a)
    ELSE Reversed(b) \o Tail(a)

\* shapely.line_merge(shapely.unary_union(lines)): the lines sewn together
\* at shared end points; <<>> stands for a result that is not one LineString
RECURSIVE line_merge(_, _, _)
line_merge(sc, path, rest) ==
    IF rest = {} THEN path
    ELSE IF \E n \in rest : Joinable(path, sc.shapes[n].geometry.coords)
    THEN LET n == CHOOSE m \in rest : Joinable(path, sc.shapes[m].geometry.coords)
         IN  line_merge(sc, Join(path, sc.shapes[n].geometry.coords), rest \ {n})
    ELSE <<>>

\* A merge that keeps the 'directional' of the first member as it is
MergeComponent_undirected(sc, component, first) ==
    IF line_merge(sc, sc.shapes[first].geometry.coords, component \ {first}) = <<>>
    THEN [sc EXCEPT !.raised = TRUE]
    ELSE [sc EXCEPT !.shapes =
            [n \in DOMAIN sc.shapes |->
                IF n = first
                THEN [sc.shapes[n] EXCEPT
                        !.geometry = LineString(
                            line_merge(sc, sc.shapes[first].geometry.coords,
                                       component \ {first}))]
                ELSE IF n \in component
                THEN [sc.shapes[n] EXCEPT !.exclude = TRUE]
                ELSE sc.shapes[n]]]

\* Lines 168-175 for one connected component; `first` is the member that
\* list(joined_connection) puts first
MergeComponent(sc, component, first) ==
    LET connected_line == line_merge(sc, sc.shapes[first].geometry.coords,
                                     component \ {first})
        others == component \ {first}
    IN  IF connected_line = <<>>
        THEN [sc EXCEPT !.raised = TRUE]        \* the assert fails
        ELSE [sc EXCEPT !.shapes =
                [n \in DOMAIN sc.shapes |->
                    IF n = first
                    THEN [sc.shapes[n] EXCEPT
                            !.geometry = LineString(connected_line),
                            !.directional =
                                @ \/ \E m \in others : sc.shapes[m].directional]
                    ELSE IF n \in others
                    THEN [sc.shapes[n] EXCEPT !.exclude = TRUE]
                    ELSE sc.shapes[n]]]

\* The iteration order of a set of Shape objects follows their hashes:
\* either end of the component may come first
SetOrders == {"ascending", "descending"}

FirstOf(component, set_order) ==
    IF set_order = "ascending"
    THEN CHOOSE n \in component : \A m \in component : n <= m
    ELSE CHOOSE n \in component : \A m \in component : n >= m

RECURSIVE MergeComponents(_, _, _)
MergeComponents(sc, components, set_order) ==
    IF components = {} \/ sc.raised THEN sc
    ELSE LET c == CHOOSE x \in components : TRUE
         IN  MergeComponents(MergeComponent(sc, c, FirstOf(c, set_order)),
                             components \ {c}, set_order)

\* Lines 177-186: the (parent, child) pairs of the containment index, in
\* the order the loops produce them; both are positions in `geometries`
parent_child(geometries) ==
    LET N == Len(geometries)
        children(p) ==
            SelectSeq([c \in 1..N |-> c],
                      LAMBDA c : /\ contains_properly(geometries[p].geometry,
                                                      geometries[c].geometry)
                                 /\ geometries[c].geometry.area > 0)
        RECURSIVE pairs(_)
        pairs(p) ==
            IF p = 0 THEN <<>>
            ELSE pairs(p - 1) \o
                 (IF geometries[p].geometry.area > 0
                  THEN [k \in 1..Len(children(p)) |->
                            [parent |-> geometries[p].shape,
                             child |-> geometries[children(p)[k]].shape]]
                  ELSE <<>>)
    IN  pairs(N)

\* A key that leaves the parent's area out
KeyBefore_child_only(sc, a, b) ==
    sc.shapes[a.child].id < sc.shapes[b.child].id

\* The key of line 188: the child's id, then the area of the parent's
\* geometry as it is now
KeyBefore(sc, a, b) ==
    \/ sc.shapes[a.child].id < sc.shapes[b.child].id
    \/ /\ sc.shapes[a.child].id = sc.shapes[b.child].id
       /\ sc.shapes[a.parent].geometry.area < sc.shapes[b.parent].geometry.area

\* sorted(parent_child, key=...): a stable sort
sorted(sc, pairs) ==
    LET N == Len(pairs)
        rank(i) == Cardinality({j \in 1..N :
                        \/ KeyBefore(sc, pairs[j], pairs[i])
                        \/ (~KeyBefore(sc, pairs[i], pairs[j]) /\ j < i)})
    IN  [k \in 1..N |-> pairs[CHOOSE i \in 1..N : rank(i) = k - 1]]

\* Lines 187-191
RECURSIVE AddParents(_, _, _)
AddParents(sc, pairs, k) ==
    IF k = 0 THEN sc
    ELSE LET sc1 == AddParents(sc, pairs, k - 1)
             child == pairs[k].child
         IN  IF k = 1 \/ sc.shapes[pairs[k - 1].child].id # sc.shapes[child].id
             THEN [sc1 EXCEPT !.shapes[child] =
                        add_parent(@, sc1.shapes[pairs[k].parent]),
                              !.parents_added = Append(@, child)]
             ELSE sc1

\* ShapeClassifier.__init__
ShapeClassifier_init(shapes, authoring, set_order) ==
    LET sc0 == ShapeClassifier(shapes, authoring)
        sc1 == VisitShapes(sc0, Len(shapes))
        r == resolve_joiners(sc1)
        sc2 == MergeComponents(r, connected_components(r.joined_connection_graph),
                               set_order)
        pairs == sorted(sc2, parent_child(sc2.geometries))
    IN  IF sc1.raised THEN sc1
        ELSE IF sc2.raised THEN sc2
        ELSE AddParents(sc2, pairs, Len(pairs))

\* TextFinder.get_text(shape): the label of the shape, from the TEXT shapes
\* it contains; None when there is none
get_text(shapes, shape) ==
    IF \E n \in 1..Len(shapes) :
            /\ shapes[n].shape_type = "TEXT"
            /\ contains_properly(shape.geometry, shapes[n].geometry)
    THEN "text" ELSE "None"

\* ShapeClassifier.classify(): the shapes after the call
classify_shapes(shapes) ==
    [n \in 1..Len(shapes) |->
        IF /\ shapes[n].shape_type \in {"COMPONENT", "CONTAINER"}
           /\ get_text(shapes, shapes[n]) # "None"
        THEN [shapes[n] EXCEPT !.label = get_text(shapes, shapes[n])]
        ELSE shapes[n]]

\* the list classify() returns
classify(shapes) ==
    SelectSeq(classify_shapes(shapes), LAMBDA s : ~s.exclude)

-----------------------------------------------------------------------------
(* The shapes of a diagram.  A run classifies up to MaxShapes of them, in   *)
(* the order of the diagram.                                                *)

Diagram ==
    << \* two nested frames and the outline of the map
       Shape(1, "UNKNOWN", Rectangle(<<0, 0, 40, 40>>), "None", "None", FALSE),
       Shape(2, "UNKNOWN", Rectangle(<<2, 2, 38, 38>>), "None", "None", FALSE),
       Shape(3, "UNKNOWN",
             Polygon("MultiPolygon", <<0, 0, 40, 40>>, NoBox, 400, 0, 0, <<>>),
             "None", "None", FALSE),
       \* a small box
       Shape(4, "UNKNOWN", Rectangle(<<10, 20, 14, 24>>), "None", "None", FALSE),
       \* a triangle with its right angle at (20, 10) and legs of 8, a box
       \* around part of it, and a box inside it
       Shape(5, "UNKNOWN",
             Polygon("Polygon", <<20, 10, 28, 18>>, <<20, 10, 24, 14>>, 32, 4,
                     2731, <<>>),
             "None", "None", FALSE),
       Shape(6, "UNKNOWN", Rectangle(<<19, 9, 28, 17>>), "None", "None", FALSE),
       Shape(7, "UNKNOWN", Rectangle(<<21, 11, 23, 13>>), "None", "None", FALSE),
       \* three lines that end on the triangle; the first and the third are
       \* collinear
       Shape(8, "UNKNOWN", LineString(<< <<12, 14>>, <<20, 14>> >>),
             "None", "red", TRUE),
       Shape(9, "UNKNOWN", LineString(<< <<23, 22>>, <<23, 15>> >>),
             "None", "red", FALSE),
       Shape(10, "UNKNOWN", LineString(<< <<24, 14>>, <<32, 14>> >>),
             "None", "blue", FALSE),
       \* a thick line drawn as a polygon
       Shape(11, "UNKNOWN",
             Polygon("Polygon", <<4, 30, 16, 36>>, NoBox, 24, 5, 2800,
                     << <<4, 30>>, <<16, 36>> >>),
             "red", "None", FALSE),
       \* the background of a text, and the text
       Shape(12, "UNKNOWN",
             Polygon("Polygon", <<9, 19, 15, 25>>, <<10, 20, 14, 24>>, 16, 9,
                     1700, <<>>),
             "None", "None", FALSE),
       Shape(13, "TEXT", Rectangle(<<11, 21, 13, 23>>), "None", "None", FALSE),
       \* an irregular shape, and a box inside it
       Shape(14, "UNKNOWN",
             Polygon("Polygon", <<26, 24, 34, 32>>, <<28, 26, 32, 30>>, 40, 9,
                     2600, <<>>),
             "None", "None", FALSE),
       Shape(15, "UNKNOWN", Rectangle(<<29, 27, 31, 29>>), "None", "None", FALSE),
       \* two small islands
       Shape(16, "UNKNOWN",
             Polygon("MultiPolygon", <<30, 2, 36, 8>>, NoBox, 20, 0, 0, <<>>),
             "None", "None", FALSE),
       \* a line that came typed from the slide
       Shape(17, "CONNECTION", LineString(<< <<20, 5>>, <<30, 5>> >>),
             "None", "red", FALSE),
       \* a small rounded box: 78% of its bounds of 6 by 6
       Shape(18, "UNKNOWN",
             Polygon("Polygon", <<3, 3, 9, 9>>, <<4, 4, 8, 8>>, 28, 9,
                     2200, <<>>),
             "None", "None", FALSE),
       \* a box whose bounds are exactly a thousandth of the map
       Shape(19, "UNKNOWN", Rectangle(<<29, 9, 39, 19>>), "None", "None", FALSE),
       \* a slanting line, and a text
       Shape(20, "UNKNOWN", LineString(<< <<5, 12>>, <<9, 15>> >>),
             "None", "red", FALSE),
       Shape(21, "TEXT", Rectangle(<<6, 16, 8, 18>>), "None", "None", FALSE) >>

\* The lists of at most MaxShapes shapes of the diagram, in its order
RECURSIVE Pick(_, _)
Pick(ids, k) ==
    IF k = 0 \/ ids = {} THEN {<<>>}
    ELSE {<<>>} \cup
         UNION {{<<Diagram[i]>> \o rest : rest \in Pick({j \in ids : j > i}, k - 1)}
                    : i \in ids}

ShapeLists == Pick(DOMAIN Diagram, MaxShapes)

-----------------------------------------------------------------------------
(* ShapeFilter (src/mapmaker/shapes/shapefilter.py).  The polygons given to *)
(* the filter are rectangles, so a polygon is its bounding box.             *)

\* A shape whose geometry is None
NoGeometry == Polygon("None", NoBox, NoBox, 0, 0, 0, <<>>)

\* A shape with the properties the filter reads: name, colour and opacity
NamedShape(id, geometry, name, colour, opacity) ==
    [Shape(id, "UNKNOWN", geometry, "None", "None", FALSE) EXCEPT !.colour = colour]
        @@ [name |-> name, opacity |-> opacity, global_shape |-> NoId]

\* CommonAttributes(shape); global_shape is the shape, here its id
CommonAttributes(shape) ==
    [name |-> shape.name, colour |-> shape.colour, opacity |-> shape.opacity,
     global_shape |-> shape.id]

\* CommonAttributes.__eq__
attributes_eq(a, b) ==
    a.name = b.name /\ a.colour = b.colour /\ a.opacity = b.opacity

\* 'Polygon' in geometry.geom_type
polygonal(geometry) == geometry.geom_type \in {"Polygon", "MultiPolygon"}

\* ShapeFilter.__init__.  excluded_shape_rtree is "None", "STRtree" once the
\* index is built, or "deleted" once the attribute has been deleted.
ShapeFilter ==
    [excluded_shape_attributes |-> <<>>,
     excluded_shape_geometries |-> <<>>,
     excluded_shape_rtree |-> "None",
     warn_create |-> FALSE,
     warn_filter |-> FALSE,
     log |-> <<>>]

\* Reading self.__excluded_shape_rtree raises AttributeError once the
\* attribute is deleted
rtree_missing(f) == f.excluded_shape_rtree = "deleted"

\* ShapeFilter.add_shape, without the test of the index
add_shape_unfrozen(f, shape) ==
    [sf |-> IF polygonal(shape.geometry)
            THEN [f EXCEPT !.excluded_shape_geometries = Append(@, shape.geometry),
                           !.excluded_shape_attributes =
                                Append(@, CommonAttributes(shape))]
            ELSE f,
     raised |-> FALSE]

\* ShapeFilter.add_shape
add_shape(f, shape) ==
    IF shape.geometry # NoGeometry /\ rtree_missing(f)
    THEN [sf |-> f, raised |-> TRUE]
    ELSE IF shape.geometry # NoGeometry /\ f.excluded_shape_rtree = "None"
    THEN [sf |-> IF polygonal(shape.geometry)
                 THEN [f EXCEPT !.excluded_shape_geometries = Append(@, shape.geometry),
                                !.excluded_shape_attributes =
                                     Append(@, CommonAttributes(shape))]
                 ELSE f,
          raised |-> FALSE]
    ELSE IF ~f.warn_create
    THEN [sf |-> [f EXCEPT !.warn_create = TRUE,
                           !.log = Append(@, "Cannot add shapes to filter after it has been created...")],
          raised |-> FALSE]
    ELSE [sf |-> f, raised |-> FALSE]

\* ShapeFilter.create_filter
create_filter(f) ==
    IF rtree_missing(f) THEN [sf |-> f, raised |-> TRUE]
    ELSE IF f.excluded_shape_rtree = "None"
    THEN [sf |-> [f EXCEPT !.excluded_shape_rtree = "STRtree"], raised |-> FALSE]
    ELSE [sf |-> f, raised |-> FALSE]

\* ShapeFilter.reset_filter: `del self.__excluded_shape_rtree` removes the
\* attribute, it does not set it to None
reset_filter(f) ==
    IF rtree_missing(f) THEN [sf |-> f, raised |-> TRUE]
    ELSE IF f.excluded_shape_rtree # "None"
    THEN create_filter([f EXCEPT !.excluded_shape_rtree = "deleted"])
    ELSE create_filter(f)

\* g.intersects(geometry) for two rectangles, or a rectangle and a line's
\* bounds
intersects(g, geometry) == BoxesIntersect(g.box, geometry.box)

\* g.intersection(geometry).area for two rectangles
intersection_area(g, geometry) ==
    Max(Min(g.box[3], geometry.box[3]) - Max(g.box[1], geometry.box[1]), 0)
      * Max(Min(g.box[4], geometry.box[4]) - Max(g.box[2], geometry.box[2]), 0)

\* ShapeFilter.__shape_excluded(geometry, overlap), overlap in hundredths:
\* the recorded geometries it may return, being the first that the index
\* query yields with the mutual overlap
shape_excluded_by_overlap(f, geometry, overlap) ==
    { i \in 1..Len(f.excluded_shape_geometries) :
        /\ intersects(f.excluded_shape_geometries[i], geometry)
        /\ 100 * intersection_area(f.excluded_shape_geometries[i], geometry)
              >= overlap * geometry.area
        /\ 100 * intersection_area(f.excluded_shape_geometries[i], geometry)
              >= overlap * f.excluded_shape_geometries[i].area }

\* ShapeFilter.__shape_excluded(geometry, attributes=attributes)
shape_excluded_by_attributes(f, geometry, attributes) ==
    { i \in 1..Len(f.excluded_shape_geometries) :
        /\ intersects(f.excluded_shape_geometries[i], geometry)
        /\ attributes_eq(attributes, f.excluded_shape_attributes[i]) }

\* The recorded geometries whose attributes lines 96-98 of filter may get:
\* the overlap of 0.98 is tried first, then 0.80, then the attributes
shape_excluded(f, shape) ==
    IF shape_excluded_by_overlap(f, shape.geometry, 98) # {}
    THEN shape_excluded_by_overlap(f, shape.geometry, 98)
    ELSE IF shape_excluded_by_overlap(f, shape.geometry, 80) # {}
    THEN shape_excluded_by_overlap(f, shape.geometry, 80)
    ELSE shape_excluded_by_attributes(f, shape.geometry, CommonAttributes(shape))

\* Lines 99-100: the shape is excluded and takes the attributes found
excluded_as(shape, attribs) ==
    [shape EXCEPT !.exclude = TRUE, !.name = attribs.name,
                  !.colour = attribs.colour, !.opacity = attribs.opacity,
                  !.global_shape = attribs.global_shape]

\* ShapeFilter.filter when no recorded geometry is found, warning whenever
\* the filter has not been created
filter_unmatched_warning_always(f, shape) ==
    IF rtree_missing(f)
    THEN [sf |-> f, shape |-> shape, result |-> FALSE, raised |-> TRUE]
    ELSE IF f.excluded_shape_rtree # "None"
    THEN [sf |-> f, shape |-> shape, result |-> FALSE, raised |-> FALSE]
    ELSE [sf |-> [f EXCEPT !.warn_filter = TRUE,
                           !.log = Append(@, "Shape filter has not been created...")],
          shape |-> shape, result |-> FALSE, raised |-> FALSE]

\* ShapeFilter.filter when no recorded geometry is found, or none is looked
\* for
filter_unmatched(f, shape) ==
    IF rtree_missing(f)
    THEN [sf |-> f, shape |-> shape, result |-> FALSE, raised |-> TRUE]
    ELSE IF f.excluded_shape_rtree # "None" \/ f.warn_filter
    THEN [sf |-> f, shape |-> shape, result |-> FALSE, raised |-> FALSE]
    ELSE [sf |-> [f EXCEPT !.warn_filter = TRUE,
                           !.log = Append(@, "Shape filter has not been created...")],
          shape |-> shape, result |-> FALSE, raised |-> FALSE]

\* ShapeFilter.filter that takes a shape for excluded on its attributes
\* alone, intersecting or not
filter_by_attributes_alone(f, shape, found) ==
    IF /\ f.excluded_shape_rtree = "STRtree"
       /\ polygonal(shape.geometry)
       /\ \E i \in 1..Len(f.excluded_shape_geometries) :
              attributes_eq(CommonAttributes(shape), f.excluded_shape_attributes[i])
    THEN [sf |-> f,
          shape |-> excluded_as(shape, f.excluded_shape_attributes[
                       CHOOSE i \in 1..Len(f.excluded_shape_geometries) :
                          attributes_eq(CommonAttributes(shape),
                                        f.excluded_shape_attributes[i])]),
          result |-> TRUE, raised |-> FALSE]
    ELSE filter_unmatched(f, shape)

\* ShapeFilter.filter; `found` is the recorded geometry that
\* __shape_excluded returns when there is one
filter(f, shape, found) ==
    IF /\ f.excluded_shape_rtree = "STRtree"
       /\ polygonal(shape.geometry)
       /\ found \in shape_excluded(f, shape)
    THEN [sf |-> f,
          shape |-> excluded_as(shape, f.excluded_shape_attributes[found]),
          result |-> TRUE, raised |-> FALSE]
    ELSE filter_unmatched(f, shape)

\* What __shape_excluded may return to filter: a recorded geometry, or None
found_by(f, shape) ==
    IF f.excluded_shape_rtree = "STRtree" /\ polygonal(shape.geometry)
          /\ shape_excluded(f, shape) # {}
    THEN shape_excluded(f, shape)
    ELSE {NoId}

\* The reference shapes that may be added to the filter: two rectangles, a
\* line and a shape without geometry
ReferenceShapes ==
    { NamedShape(1, Rectangle(<<0, 0, 10, 10>>), "a", "red", 100),
      NamedShape(2, Rectangle(<<20, 0, 30, 10>>), "b", "blue", 50),
      NamedShape(3, LineString(<< <<0, 0>>, <<10, 10>> >>), "a", "red", 100),
      NamedShape(4, NoGeometry, "a", "red", 100) }

\* The shapes that may be filtered.  Against the first reference: 11
\* coincides, 12 overlaps 90% of it, 13 overlaps half of it and has its
\* attributes, 14 has its attributes and is elsewhere, 15 overlaps half of
\* it, 16 is a line across it, 17 has no geometry, 18 touches both
\* references and has the attributes of the second, 19 lies within it and
\* covers a quarter of it.
FilteredShapes ==
    { NamedShape(11, Rectangle(<<0, 0, 10, 10>>), "x", "green", 100),
      NamedShape(12, Rectangle(<<0, 0, 10, 9>>), "x", "green", 100),
      NamedShape(13, Rectangle(<<5, 0, 15, 10>>), "a", "red", 100),
      NamedShape(14, Rectangle(<<40, 40, 50, 50>>), "a", "red", 100),
      NamedShape(15, Rectangle(<<5, 0, 15, 10>>), "x", "green", 100),
      NamedShape(16, LineString(<< <<0, 0>>, <<10, 10>> >>), "a", "red", 100),
      NamedShape(17, NoGeometry, "a", "red", 100),
      NamedShape(18, Rectangle(<<10, 0, 20, 10>>), "b", "blue", 50),
      NamedShape(19, Rectangle(<<0, 0, 5, 5>>), "x", "green", 100) }

-----------------------------------------------------------------------------
(* The state machine *)

vars == <<mode, cc, conns, raised, calls,
          slide, classifier, stage, runs, first_run, returned, sf, sf_call>>

connection_vars == <<cc, conns, calls>>
shape_vars == <<slide, classifier, stage, runs, first_run, returned>>
filter_vars == <<sf, sf_call>>

\* No call of the ShapeFilter yet.  A record of a call holds the number of
\* the call, the operation, the shape passed before and after it, what
\* filter returned, and how many add_shape calls were made with the index
\* built and how many filter calls without it.
NoCall ==
    [n |-> 0, op |-> "none", before |-> NamedShape(NoId, NoGeometry, "", "", 0),
     after |-> NamedShape(NoId, NoGeometry, "", "", 0), result |-> FALSE,
     late_adds |-> 0, early_filters |-> 0]

\* A new ConnectionClassifier, nothing registered
NewConnectionClassifier ==
    /\ cc = ConnectionClassifier
    /\ conns = <<>>
    /\ raised = FALSE
    /\ calls = <<>>
    /\ slide = <<>>
    /\ classifier = ShapeClassifier(<<>>, FALSE)
    /\ stage = "ingested"
    /\ runs = 0
    /\ first_run = <<>>
    /\ returned = <<>>
    /\ sf = ShapeFilter
    /\ sf_call = NoCall

InitConnections == mode = "connections" /\ NewConnectionClassifier

InitHinted == mode = "hinted" /\ NewConnectionClassifier

\* A call of add_connector with a connector drawn at a free site; the
\* connectors are registered from left to right.
AddConnector(pos, fc_class, fc_kind) ==
    /\ mode \in {"connections", "hinted", "joins"}
    /\ ~raised
    /\ Len(cc.connector_geometries) < MaxConnectors
    /\ \A i \in DOMAIN cc.connectors : cc.connectors[i].pos[1] < pos[1]
    /\ cc' = add_connector(cc, Connector(Len(cc.connector_geometries) + 1,
                                         fc_class, fc_kind, pos))
    /\ UNCHANGED <<mode, conns, raised, calls>>
    /\ UNCHANGED shape_vars
    /\ UNCHANGED filter_vars

\* A call of add_component with a component not passed before; components
\* have the ids from 101
AddComponent(fc_class, box) ==
    /\ mode \in {"connections", "hinted"}
    /\ ~raised
    /\ Len(cc.component_geometries) < MaxComponents
    /\ cc' = add_component(cc, Component(101 + Len(cc.component_geometries),
                                         fc_class, box))
    /\ UNCHANGED <<mode, conns, raised, calls>>
    /\ UNCHANGED shape_vars
    /\ UNCHANGED filter_vars

\* A call of add_connection with a connection not passed before
AddConnection(coords, colour, line_style, shape_type) ==
    /\ mode = "connections"
    /\ ~raised
    /\ Len(conns) < MaxConnections
    /\ LET r == add_connection(cc, conns,
                    Connection(Len(conns) + 1, coords, colour, line_style, shape_type))
       IN  /\ cc' = r.cc
           /\ conns' = r.conns
           /\ raised' = r.raised
           /\ calls' = Append(calls, r.call)
    /\ UNCHANGED mode
    /\ UNCHANGED shape_vars
    /\ UNCHANGED filter_vars

\* A call of add_connection with a connection not passed before whose
\* drawing names the connector at its start or at its end
AddHintedConnection(coords, colour, line_style, connection_start, connection_end) ==
    /\ mode = "hinted"
    /\ ~raised
    /\ Len(conns) < MaxHinted
    /\ LET r == add_connection(cc, conns,
                    [Connection(Len(conns) + 1, coords, colour, line_style,
                                "CONNECTION")
                        EXCEPT !.connection_start = connection_start,
                               !.connection_end = connection_end])
       IN  /\ cc' = r.cc
           /\ conns' = r.conns
           /\ raised' = r.raised
           /\ calls' = Append(calls, r.call)
    /\ UNCHANGED mode
    /\ UNCHANGED shape_vars
    /\ UNCHANGED filter_vars

NextConnections ==
    \/ \E pos \in ConnectorSites, t \in ConnectorTypes : AddConnector(pos, t[1], t[2])
    \/ \E t \in ComponentTypes : AddComponent(t[1], t[2])
    \/ \E l \in Lines :
           AddConnection(l.coords, l.colour, l.line_style, "CONNECTION")

SpecConnections == InitConnections /\ [][NextConnections]_vars

NextHinted ==
    \/ \E pos \in ConnectorSites, t \in ConnectorTypes : AddConnector(pos, t[1], t[2])
    \/ \E t \in ComponentTypes : AddComponent(t[1], t[2])
    \/ \E l \in Lines, h \in EndHints :
           AddHintedConnection(l.coords, l.colour, l.line_style, h[1], h[2])

SpecHinted == InitHinted /\ [][NextHinted]_vars

InitJoins == mode = "joins" /\ NewConnectionClassifier

\* A call of add_connection with a neuron segment not passed before
AddJoinedConnection(coords, colour, line_style) ==
    /\ mode = "joins"
    /\ ~raised
    /\ Len(conns) < MaxJoined
    /\ LET r == add_connection(cc, conns,
                    Connection(Len(conns) + 1, coords, colour, line_style,
                               "CONNECTION"))
       IN  /\ cc' = r.cc
           /\ conns' = r.conns
           /\ raised' = r.raised
           /\ calls' = Append(calls, r.call)
    /\ UNCHANGED mode
    /\ UNCHANGED shape_vars
    /\ UNCHANGED filter_vars

\* Neuron segments drawn between joiners
NextJoins ==
    \/ \E pos \in ConnectorSites : AddConnector(pos, "NEURAL", "CONNECTOR_JOINER")
    \/ \E l \in JoinLines : AddJoinedConnection(l.coords, l.colour, l.line_style)

SpecJoins == InitJoins /\ [][NextJoins]_vars

\* The shapes of a slide, ingested and not yet classified
InitShapes ==
    /\ mode = "shapes"
    /\ slide \in ShapeLists
    /\ \E authoring \in BOOLEAN : classifier = ShapeClassifier(slide, authoring)
    /\ stage = "ingested"
    /\ runs = 0
    /\ first_run = <<>>
    /\ returned = <<>>
    /\ raised = FALSE
    /\ cc = ConnectionClassifier
    /\ conns = <<>>
    /\ calls = <<>>
    /\ sf = ShapeFilter
    /\ sf_call = NoCall

\* ShapeClassifier(shapes, map_area, metres_per_pixel), on the ingested
\* shapes or on the shapes a finished run has left
Construct(set_order) ==
    /\ mode = "shapes"
    /\ ~raised
    /\ stage \in {"ingested", "classified"}
    /\ runs < MaxRuns
    /\ classifier' = ShapeClassifier_init(slide, classifier.authoring, set_order)
    /\ slide' = classifier'.shapes
    /\ raised' = classifier'.raised
    /\ stage' = "constructed"
    /\ runs' = runs + 1
    /\ UNCHANGED <<mode, first_run, returned>>
    /\ UNCHANGED connection_vars
    /\ UNCHANGED filter_vars

\* classify()
Classify ==
    /\ mode = "shapes"
    /\ ~raised
    /\ stage = "constructed"
    /\ slide' = classify_shapes(slide)
    /\ classifier' = [classifier EXCEPT !.shapes = slide']
    /\ returned' = classify(slide)
    /\ first_run' = IF runs = 1 THEN slide' ELSE first_run
    /\ stage' = "classified"
    /\ UNCHANGED <<mode, raised, runs>>
    /\ UNCHANGED connection_vars
    /\ UNCHANGED filter_vars

NextShapes ==
    \/ \E set_order \in SetOrders : Construct(set_order)
    \/ Classify

SpecShapes == InitShapes /\ [][NextShapes]_vars

\* Either object
\* A new ShapeFilter
InitFilter ==
    /\ mode = "filter"
    /\ sf = ShapeFilter
    /\ sf_call = NoCall
    /\ raised = FALSE
    /\ cc = ConnectionClassifier
    /\ conns = <<>>
    /\ calls = <<>>
    /\ slide = <<>>
    /\ classifier = ShapeClassifier(<<>>, FALSE)
    /\ stage = "ingested"
    /\ runs = 0
    /\ first_run = <<>>
    /\ returned = <<>>

\* The record of a call of the ShapeFilter
FilterCall(op, before, after, result) ==
    [n |-> sf_call.n + 1, op |-> op, before |-> before, after |-> after,
     result |-> result,
     late_adds |-> IF op = "add_shape" /\ sf.excluded_shape_rtree # "None"
                   THEN sf_call.late_adds + 1 ELSE sf_call.late_adds,
     early_filters |-> IF op = "filter" /\ sf.excluded_shape_rtree = "None"
                       THEN sf_call.early_filters + 1 ELSE sf_call.early_filters]

\* A call of add_shape
AddShape(shape) ==
    /\ mode = "filter"
    /\ ~raised
    /\ sf_call.n < MaxFilterCalls
    /\ sf' = add_shape(sf, shape).sf
    /\ raised' = add_shape(sf, shape).raised
    /\ sf_call' = FilterCall("add_shape", shape, shape, FALSE)
    /\ UNCHANGED mode
    /\ UNCHANGED connection_vars
    /\ UNCHANGED shape_vars

\* A call of create_filter
CreateFilter ==
    /\ mode = "filter"
    /\ ~raised
    /\ sf_call.n < MaxFilterCalls
    /\ sf' = create_filter(sf).sf
    /\ raised' = create_filter(sf).raised
    /\ sf_call' = FilterCall("create_filter", NoCall.before, NoCall.after, FALSE)
    /\ UNCHANGED mode
    /\ UNCHANGED connection_vars
    /\ UNCHANGED shape_vars

\* A call of reset_filter
ResetFilter ==
    /\ mode = "filter"
    /\ ~raised
    /\ sf_call.n < MaxFilterCalls
    /\ sf' = reset_filter(sf).sf
    /\ raised' = reset_filter(sf).raised
    /\ sf_call' = FilterCall("reset_filter", NoCall.before, NoCall.after, FALSE)
    /\ UNCHANGED mode
    /\ UNCHANGED connection_vars
    /\ UNCHANGED shape_vars

\* A call of filter
Filter(shape) ==
    /\ mode = "filter"
    /\ ~raised
    /\ sf_call.n < MaxFilterCalls
    /\ \E found \in found_by(sf, shape) :
           /\ sf' = filter(sf, shape, found).sf
           /\ raised' = filter(sf, shape, found).raised
           /\ sf_call' = FilterCall("filter", shape, filter(sf, shape, found).shape,
                                    filter(sf, shape, found).result)
    /\ UNCHANGED mode
    /\ UNCHANGED connection_vars
    /\ UNCHANGED shape_vars

NextFilter ==
    \/ \E shape \in ReferenceShapes : AddShape(shape)
    \/ CreateFilter
    \/ ResetFilter
    \/ \E shape \in FilteredShapes : Filter(shape)

SpecFilter == InitFilter /\ [][NextFilter]_vars

Init == InitConnections \/ InitHinted \/ InitJoins \/ InitShapes \/ InitFilter

Next == NextConnections \/ NextHinted \/ NextJoins \/ NextShapes \/ NextFilter

Spec == Init /\ [][Next]_vars

-----------------------------------------------------------------------------
(* Observations on the state *)

Graphs == {cc.neural_graph, cc.vascular_graph}

\* The connections carried by an edge of a Connection Graph
Carried == {e.connection : e \in cc.neural_graph.edges \cup cc.vascular_graph.edges}

Final(c) == c \in Carried
Merged(c) == conns[c].exclude /\ c \notin Carried

Added == 1..Len(conns)

\* All accepted splices that completed, over all calls
AllSplices == {<<n, i>> \in (1..Len(calls)) \X (1..2) : i <= Len(calls[n].splices)}

LastCall == calls[Len(calls)]

-----------------------------------------------------------------------------
(* Claims about the Connection Classifier *)

IdsOf(c) == conns[c].connector_ids

\* An edge of some Connection Graph carries connection c between its two
\* recorded connectors
EdgeOf(c) ==
    \E g \in Graphs : \E e \in g.edges :
        /\ e.connection = c
        /\ Len(IdsOf(c)) = 2
        /\ e.pair = Pair(IdsOf(c)[1], IdsOf(c)[2])

\* C2: every edge of every ConnectionGraph carries a connection with exactly
\* two recorded connector ids, and the two ids differ (no edge joins a
\* connector to itself).
C2_EdgesJoinTwoDistinctConnectors ==
    \A g \in Graphs : \A e \in g.edges :
        /\ Len(IdsOf(e.connection)) = 2
        /\ IdsOf(e.connection)[1] # IdsOf(e.connection)[2]
        /\ e.pair[1] # e.pair[2]

\* C3: once its add_connection call has returned, and after every later
\* call, every added connection is in a terminal state: merged (excluded,
\* carried by no edge) or final (carried by an edge of a domain graph).
C3_EveryConnectionMergedOrFinal ==
    ~raised => \A c \in Added : Merged(c) \/ Final(c)

\* C4: the number of final connections equals the number of connections
\* added minus the number of successful splices.
C4_FinalCountIsAddedMinusSplices ==
    ~raised =>
        Cardinality({c \in Added : Final(c)}) = Len(conns) - Cardinality(AllSplices)

\* The tangents of a path that runs through the shared point: the new line
\* ends (coord_index = -1) or starts (coord_index = 0) there, and the old
\* line is taken from its end nearer to that point.
OldStartsAtJoin(new_coords, coord_index, old_coords) ==
    LET p == IF coord_index = 0 THEN new_coords[1] ELSE Last(new_coords)
    IN  Dist2(p, old_coords[1]) < Dist2(p, Last(old_coords))

TangentOfNew(new_coords, coord_index) ==
    IF coord_index = 0
    THEN <<new_coords[2][1] - new_coords[1][1], new_coords[2][2] - new_coords[1][2]>>
    ELSE LET n == Len(new_coords)
         IN  <<new_coords[n][1] - new_coords[n-1][1], new_coords[n][2] - new_coords[n-1][2]>>

\* the old line's tangent at the join, in the direction the joined path runs
TangentOfOld(new_coords, coord_index, old_coords) ==
    LET n == Len(old_coords)
        out == IF OldStartsAtJoin(new_coords, coord_index, old_coords)
               THEN <<old_coords[2][1] - old_coords[1][1], old_coords[2][2] - old_coords[1][2]>>
               ELSE <<old_coords[n-1][1] - old_coords[n][1], old_coords[n-1][2] - old_coords[n][2]>>
    IN  IF coord_index = 0 THEN <<0 - out[1], 0 - out[2]>> ELSE out

\* |u + v| > 1.93 for the unit vectors u, v of a and b: with c the cosine of
\* their angle, 2 + 2c > 3.7249, i.e. c > 0.86245
SumExceeds193(a, b) ==
    /\ Dot(a, a) > 0
    /\ Dot(b, b) > 0
    /\ Dot(a, b) > 0
    /\ 100000 * Dot(a, b) * Dot(a, b) > 74382 * Dot(a, a) * Dot(b, b)

\* C5: a splice happens only if the two descriptions are equal and the sum
\* of the two unit tangents at the shared point exceeds 1.93; in a call that
\* rejects a join and splices nothing, the new and the recorded connection
\* keep their geometry, connector ids, exclude flags and graph edges, and
\* the join connector's exclude flag is as it was.
C5_SpliceOnlyWhenEqualAndContinuous ==
    (Len(calls) > 0 /\ ~raised) =>
        LET call == LastCall
            new == call.connection
        IN  /\ \A i \in 1..Len(call.splices) :
                  LET e == call.splices[i]
                  IN  /\ e.old_before.description = conns[new].description
                      /\ SumExceeds193(
                            TangentOfNew(e.new_before.coords, e.coord_index),
                            TangentOfOld(e.new_before.coords, e.coord_index,
                                         e.old_before.coords))
            /\ call.splices = <<>> =>
                 \A i \in 1..Len(call.rejects) :
                    LET r == call.rejects[i]
                    IN  /\ conns[r.old] = r.old_before
                        /\ EdgeOf(r.old)
                        /\ conns[new].coords = call.coords
                        /\ conns[new].connector_ids = call.ends
                        /\ ~conns[new].exclude
                        /\ EdgeOf(new)
                        /\ cc.connectors[r.connector].exclude
                              = r.connector_before.exclude

\* The line a splice produced is the two lines it joined, one after the
\* other, either of them possibly reversed
IsConcatenation(coordinates, a, b) ==
    coordinates \in {a \o b, b \o a, a \o Reversed(b), Reversed(b) \o a,
                     Reversed(a) \o b, b \o Reversed(a)}

\* C6: after a call that accepted a splice at a JOINER connector, the
\* recorded connection has no graph edge, the joiner and the recorded
\* connection are excluded, the surviving connection's geometry is the
\* concatenated line, and the surviving connection has exactly two connector
\* ids, its own other end and the recorded connection's other end, and is
\* carried by one edge between them.
C6_JoinerSplice ==
    Len(calls) > 0 =>
        LET call == LastCall
            new == call.connection
            accepted == call.splices \o call.failed
        IN  \A i \in 1..Len(call.splices) :
               LET e == call.splices[i]
               IN  e.kind = "CONNECTOR_JOINER" =>
                     /\ e.old \notin Carried
                     /\ cc.connectors[e.connector].exclude
                     /\ conns[e.old].exclude
                     /\ IsConcatenation(e.coordinates, e.new_before.coords,
                                        e.old_before.coords)
                     /\ i = Len(accepted) =>
                           /\ conns[new].coords = e.coordinates
                           /\ IdsOf(new) = ListRemove(e.new_before.connector_ids,
                                                      e.connector) \o <<e.other>>
                     /\ Len(IdsOf(new)) = 2
                     /\ EdgeOf(new)
                     /\ Cardinality({g \in Graphs : \E d \in g.edges : d.connection = new}) = 1

\* C7: after a call that accepted a splice at a THROUGH connector, the
\* connector is not excluded, its id is among the surviving connection's
\* intermediate_connectors, and the call has completed with the surviving
\* connection carried by an edge between the two far-end connectors.
C7_ThroughSplice ==
    Len(calls) > 0 =>
        LET call == LastCall
            new == call.connection
            accepted == call.splices \o call.failed
        IN  \A i \in 1..Len(accepted) :
               LET e == accepted[i]
               IN  e.kind = "CONNECTOR_THROUGH" =>
                     /\ ~raised
                     /\ ~cc.connectors[e.connector].exclude
                     /\ InSeq(e.connector, conns[new].intermediate_connectors)
                     /\ EdgeOf(new)
                     /\ e.other \in {IdsOf(new)[k] : k \in 1..Len(IdsOf(new))}

-----------------------------------------------------------------------------
(* Claims about the Shape Classifier *)

Constructed == mode = "shapes" /\ stage \in {"constructed", "classified"} /\ ~raised

Positions == 1..Len(slide)

\* the position of the shape a parent link names
ParentOf(n) ==
    IF slide[n].parent = NoParent THEN 0
    ELSE CHOOSE p \in Positions : slide[p].id = slide[n].parent

RECURSIVE Ancestors(_, _)
Ancestors(n, k) ==
    IF k = 0 \/ ParentOf(n) = 0 THEN {}
    ELSE {ParentOf(n)} \cup Ancestors(ParentOf(n), k - 1)

Acyclic == \A n \in Positions : n \notin Ancestors(n, Len(slide))

OneParentEach ==
    \A i, j \in 1..Len(classifier.parents_added) :
        i # j => classifier.parents_added[i] # classifier.parents_added[j]

\* every shape whose geometry properly contains that of the n-th shape
Containing(n) ==
    {p \in Positions : contains_properly(slide[p].geometry, slide[n].geometry)}

\* the geometry the containment index holds for the n-th shape
Indexed(n) == \E i \in 1..Len(classifier.geometries) : classifier.geometries[i].shape = n
IndexedGeometry(n) ==
    classifier.geometries[CHOOSE i \in 1..Len(classifier.geometries) :
                               classifier.geometries[i].shape = n].geometry

\* the candidates of the containment index: the shapes that were neither
\* excluded nor typed CONNECTION when the constructor's loop left them,
\* with the geometry they had then, of positive area
Candidates(n) ==
    {p \in Positions :
        /\ Indexed(p) /\ Indexed(n)
        /\ IndexedGeometry(p).area > 0
        /\ IndexedGeometry(n).area > 0
        /\ contains_properly(IndexedGeometry(p), IndexedGeometry(n))}

LeastArea(p, among) ==
    /\ p \in among
    /\ \A q \in among : slide[p].geometry.area <= slide[q].geometry.area

JoinerIds ==
    {slide[classifier.connection_joiners[k]].id :
        k \in 1..Len(classifier.connection_joiners)}

Classified == mode = "shapes" /\ stage = "classified" /\ ~raised

\* C8 as stated: after construction and classify() every shape that is not
\* excluded has a structural type other than UNKNOWN.
C8_EveryReturnedShapeTyped ==
    Classified =>
        /\ \A n \in Positions :
              ~slide[n].exclude => slide[n].shape_type # "UNKNOWN"
        /\ \A i \in 1..Len(returned) : returned[i].shape_type # "UNKNOWN"

\* C8 amended: after construction and classify() a shape that is not
\* excluded has a structural type other than UNKNOWN, unless it is a joiner
\* candidate that did not match exactly two connection ends (it is flagged
\* yellow with a red stroke), or the run is in authoring mode and no line
\* could be extracted from it (it is flagged yellow).
C8_UntypedOnlyWhenFlagged ==
    Classified =>
        /\ returned = SelectSeq(slide, LAMBDA s : ~s.exclude)
        /\ \A i \in 1..Len(returned) :
              LET s == returned[i]
              IN  s.shape_type = "UNKNOWN" =>
                    \/ /\ s.id \in JoinerIds
                       /\ s.colour = "yellow"
                       /\ s.stroke = "red"
                    \/ /\ classifier.authoring
                       /\ s.geometry.geom_type = "Polygon"
                       /\ get_line(s) = <<>>
                       /\ s.colour = "yellow"

\* C8 witness: classify() has returned an unmatched joiner candidate and a
\* shape whose line extraction failed, both still UNKNOWN
C8_Witness ==
    /\ Classified
    /\ \E i, j \in 1..Len(returned) :
          /\ returned[i].shape_type = "UNKNOWN"
          /\ returned[i].id \in JoinerIds
          /\ returned[i].stroke = "red"
          /\ returned[j].shape_type = "UNKNOWN"
          /\ returned[j].id \notin JoinerIds
          /\ returned[j].colour = "yellow"

\* the add_connection calls that have completed
Completed == {c \in Added : c < Len(conns) \/ ~raised}

\* C9 as stated: no shape, and no shape wrapped by a Connection, has its
\* 'shape-type' assigned while its type is other than UNKNOWN.
C9_TypeNeverAssignedAgain ==
    /\ \A n \in Positions : ~slide[n].reassigned
    /\ \A c \in Added : ~conns[c].reassigned

\* C9 amended: the ShapeClassifier never assigns the 'shape-type' of a
\* shape whose type is other than UNKNOWN; add_connection assigns
\* 'connection' once, at the end of every call that completes, whatever
\* type the connection's shape has, and does not assign in a call that
\* raises.
C9_OnlyAddConnectionAssignsAgain ==
    /\ \A n \in Positions :
          /\ ~slide[n].reassigned
          /\ slide[n].type_assigned <= 1
    /\ \A c \in Added :
          IF c \in Completed
          THEN /\ conns[c].type_assigned = 1
               /\ conns[c].shape_type = "connection"
               /\ conns[c].reassigned = (calls[c].had_type # "UNKNOWN")
          ELSE /\ conns[c].type_assigned = 0
               /\ conns[c].shape_type = calls[c].had_type

\* C9 witness: add_connection has completed on a connection that came typed
\* CONNECTION, and has assigned its type again
C9_Witness ==
    \E c \in Completed :
        /\ calls[c].had_type = "CONNECTION"
        /\ conns[c].reassigned
        /\ conns[c].shape_type = "connection"

\* what the claim lists of a shape's state
Observed(shape) ==
    [id |-> shape.id, shape_type |-> shape.shape_type, exclude |-> shape.exclude,
     geometry |-> shape.geometry, parent |-> shape.parent,
     colour |-> shape.colour, stroke |-> shape.stroke]

\* C10: a second run (constructor and classify()) on the shapes the first
\* run left changes no type, exclude flag, geometry, parent, colour or
\* stroke.
C10_SecondRunChangesNothing ==
    (Classified /\ runs = 2) =>
        \A n \in Positions : Observed(slide[n]) = Observed(first_run[n])

-----------------------------------------------------------------------------
(* Claims about registration and endpoint resolution *)

\* What add_component and add_connector register
Registered(c) ==
    <<c.component_geometries, c.connector_geometries, c.connectors>>

RejectionLogged(c) ==
    \/ <<"error", "Cannot add components once connections are added">> \in c.log
    \/ <<"error", "Cannot add connectors once connections are added">> \in c.log

\* C11: once an add_connection call has been made, every add_component or
\* add_connector call (a step that makes no add_connection call) is rejected
\* with an error and leaves the registered components and connectors
\* unchanged, whatever was registered before, including nothing.
C11_RegistrationFrozenAfterFirstConnection ==
    [][(mode = "connections" /\ Len(calls) > 0 /\ calls' = calls)
          => (Registered(cc') = Registered(cc) /\ RejectionLogged(cc'))]_vars

\* The free-end connector ids of a call, and the point of each
FreeEndsOf(call) == {call.ends[i] : i \in {j \in 1..Len(call.ends) : call.ends[j] >= 10}}

FreeEndPoint(call, id) ==
    IF id = FreeEndId(call.connection, 0) THEN call.coords[1] ELSE Last(call.coords)

\* The free-end connectors of a call were synthesized at the free ends
FreeEndsSynthesized(call) ==
    \A id \in FreeEndsOf(call) :
        /\ id \in DOMAIN cc.connectors
        /\ cc.connectors[id].fc_kind = "CONNECTOR_FREE_END"
        /\ cc.connectors[id].pos = FreeEndPoint(call, id)

\* A single free end has the domain class of the resolved sibling end
SingleFreeEndInherits(call) ==
    call.free = 1 =>
        \A id \in FreeEndsOf(call) :
            cc.connectors[id].fc_class = cc.connectors[call.ends[1]].fc_class

\* C12: after an add_connection call for a connection with a free end, a
\* FREE_END connector exists at each free end, the connection has two
\* connector ids and is carried by an edge of a domain graph, and a single
\* free-end connector has the domain class of the resolved sibling end.
C12_FreeEndsResolve ==
    (mode = "connections" /\ Len(calls) > 0 /\ LastCall.free > 0) =>
        /\ FreeEndsSynthesized(LastCall)
        /\ Len(IdsOf(LastCall.connection)) = 2
        /\ EdgeOf(LastCall.connection)
        /\ SingleFreeEndInherits(LastCall)

\* The connectors found at the ends of a call's connection
ResolvedOf(call) == {call.ends[i] : i \in {j \in 1..Len(call.ends) : call.ends[j] < 10}}

\* The ends the drawing of a connection names
HintsOf(c) == {conns[c].connection_start, conns[c].connection_end} \ {NoId}

\* A named end is unknown or is not a connector found at an end
HintMismatch(call) == \E h \in HintsOf(call.connection) : h \notin ResolvedOf(call)

\* C13: when a connection's 'connection-start' or 'connection-end' names a
\* connector that is unknown or is not found at an end, add_connection
\* records an error on the connection and runs to completion (two connector
\* ids, the connection carried by an edge of its graph), whether both, one
\* or none of the ends are free.
C13_HintMismatchRecordedNotFatal ==
    (mode = "hinted" /\ Len(calls) > 0 /\ HintMismatch(LastCall)) =>
        /\ conns[LastCall.connection].error = "Powerpoint connection"
        /\ ~LastCall.raised
        /\ Len(IdsOf(LastCall.connection)) = 2
        /\ EdgeOf(LastCall.connection)

-----------------------------------------------------------------------------
(* Claims about the ShapeFilter *)

\* How many times a warning was emitted
Warnings(f, what) == Cardinality({i \in 1..Len(f.log) : f.log[i] = what})

\* The step is a call of the ShapeFilter operation op
FilterStep(op) ==
    mode = "filter" /\ sf_call'.op = op /\ sf_call'.n = sf_call.n + 1

Recorded(f) == <<f.excluded_shape_geometries, f.excluded_shape_attributes>>

\* C14: once the index is built, an add_shape call leaves the recorded
\* geometries and attributes unchanged and raises no error, and the 'cannot
\* add' warning has been emitted at most once.
C14_AddShapeAfterCreateIsNoOp ==
    [][(FilterStep("add_shape") /\ sf.excluded_shape_rtree = "STRtree")
          => /\ Recorded(sf') = Recorded(sf)
             /\ ~raised'
             /\ Warnings(sf', "Cannot add shapes to filter after it has been created...") <= 1]_vars

\* Two add_shape calls have been made on a filter with recorded geometries
\* and a built index, the last of them of a polygon, and the warning was
\* emitted
C14_Witness ==
    /\ mode = "filter"
    /\ sf_call.op = "add_shape"
    /\ sf_call.late_adds >= 2
    /\ polygonal(sf_call.before.geometry)
    /\ sf.excluded_shape_rtree = "STRtree"
    /\ Len(sf.excluded_shape_geometries) >= 1
    /\ Warnings(sf, "Cannot add shapes to filter after it has been created...") = 1

\* C15: every call of create_filter or reset_filter, in any order and any
\* number of times, returns normally and leaves the filter with an index
\* over the recorded geometries, which it does not change.
C15_CreateAndResetIdempotent ==
    [][(FilterStep("create_filter") \/ FilterStep("reset_filter"))
          => /\ ~raised'
             /\ sf'.excluded_shape_rtree = "STRtree"
             /\ Recorded(sf') = Recorded(sf)]_vars

\* C16: a filter call made before the index is built returns false, leaves
\* the shape unchanged, and the 'not created' warning has been emitted at
\* most once.
C16_FilterBeforeCreateReturnsFalse ==
    [][(FilterStep("filter") /\ sf.excluded_shape_rtree = "None")
          => /\ ~sf_call'.result
             /\ sf_call'.after = sf_call'.before
             /\ ~raised'
             /\ Warnings(sf', "Shape filter has not been created...") <= 1]_vars

\* Two filter calls have been made without an index, the last of them of a
\* polygon that coincides with a recorded geometry
C16_Witness ==
    /\ mode = "filter"
    /\ sf_call.op = "filter"
    /\ sf_call.early_filters >= 2
    /\ sf.excluded_shape_rtree = "None"
    /\ \E i \in 1..Len(sf.excluded_shape_geometries) :
           sf.excluded_shape_geometries[i] = sf_call.before.geometry
    /\ polygonal(sf_call.before.geometry)
    /\ ~sf_call.result
    /\ Warnings(sf, "Shape filter has not been created...") = 1

\* The recorded geometry i and the shape each have at least pct hundredths
\* of their area in the other
MutualOverlap(i, shape, pct) ==
    /\ 100 * intersection_area(sf.excluded_shape_geometries[i], shape.geometry)
          >= pct * shape.geometry.area
    /\ 100 * intersection_area(sf.excluded_shape_geometries[i], shape.geometry)
          >= pct * sf.excluded_shape_geometries[i].area

SameAttributes(i, shape) ==
    /\ sf.excluded_shape_attributes[i].name = shape.name
    /\ sf.excluded_shape_attributes[i].colour = shape.colour
    /\ sf.excluded_shape_attributes[i].opacity = shape.opacity

\* The shape is excluded and has the attributes of the recorded geometry i
AnnotatedWith(shape, i) ==
    /\ shape.exclude
    /\ shape.name = sf.excluded_shape_attributes[i].name
    /\ shape.colour = sf.excluded_shape_attributes[i].colour
    /\ shape.opacity = sf.excluded_shape_attributes[i].opacity
    /\ shape.global_shape = sf.excluded_shape_attributes[i].global_shape

\* The recorded geometries that coincide with the shape, overlap it
\* mutually by 80%, or have its attributes
ClaimedMatches(shape) ==
    { i \in 1..Len(sf.excluded_shape_geometries) :
        \/ MutualOverlap(i, shape, 98)
        \/ MutualOverlap(i, shape, 80)
        \/ SameAttributes(i, shape) }

\* The recorded geometries that overlap the shape mutually by 80%, or
\* intersect it and have its attributes
IntersectingMatches(shape) ==
    { i \in 1..Len(sf.excluded_shape_geometries) :
        \/ MutualOverlap(i, shape, 80)
        \/ /\ intersects(sf.excluded_shape_geometries[i], shape.geometry)
           /\ SameAttributes(i, shape) }

\* C17: with the index built, filter returns true and excludes a polygonal
\* shape, annotated with the attributes of a matching reference, when a
\* recorded geometry coincides with it, overlaps it mutually by 80% or has
\* its (name, colour, opacity); otherwise it returns false and leaves the
\* shape unchanged, as it does for every shape that is not polygonal.
C17_FilterExcludesOnOverlapOrAttributes ==
    [][(FilterStep("filter") /\ sf.excluded_shape_rtree = "STRtree")
          => IF /\ polygonal(sf_call'.before.geometry)
                /\ ClaimedMatches(sf_call'.before) # {}
             THEN /\ sf_call'.result
                  /\ \E i \in ClaimedMatches(sf_call'.before) :
                         AnnotatedWith(sf_call'.after, i)
             ELSE /\ ~sf_call'.result
                  /\ sf_call'.after = sf_call'.before]_vars

\* C17 as the code has it: the attributes count only for a recorded
\* geometry that intersects the shape.
C17_FilterExcludesOnOverlapOrIntersectingAttributes ==
    [][(FilterStep("filter") /\ sf.excluded_shape_rtree = "STRtree")
          => IF /\ polygonal(sf_call'.before.geometry)
                /\ IntersectingMatches(sf_call'.before) # {}
             THEN /\ sf_call'.result
                  /\ \E i \in IntersectingMatches(sf_call'.before) :
                         AnnotatedWith(sf_call'.after, i)
             ELSE /\ ~sf_call'.result
                  /\ sf_call'.after = sf_call'.before]_vars

\* A polygon that overlaps half of a recorded geometry and has its
\* attributes has been excluded and annotated
C17_Witness ==
    /\ mode = "filter"
    /\ sf_call.op = "filter"
    /\ sf.excluded_shape_rtree = "STRtree"
    /\ polygonal(sf_call.before.geometry)
    /\ sf_call.result
    /\ \E i \in 1..Len(sf.excluded_shape_geometries) :
           /\ ~MutualOverlap(i, sf_call.before, 80)
           /\ intersection_area(sf.excluded_shape_geometries[i],
                                sf_call.before.geometry) > 0
           /\ SameAttributes(i, sf_call.before)
           /\ AnnotatedWith(sf_call.after, i)
    /\ \A i \in 1..Len(sf.excluded_shape_geometries) :
           ~MutualOverlap(i, sf_call.before, 80)

-----------------------------------------------------------------------------
(* Claims about excluded shapes and joiners in the ShapeClassifier *)

\* The position in the slide of the shape classify() returned i-th
PositionOf(i) == CHOOSE n \in Positions : slide[n].id = returned[i].id

\* classify() returned exactly the shapes that are not excluded, in the
\* order of the input
ReturnedNotExcluded ==
    /\ \A i \in 1..Len(returned) :
           /\ \E n \in Positions : slide[n].id = returned[i].id
           /\ returned[i] = slide[PositionOf(i)]
           /\ ~returned[i].exclude
    /\ \A n \in Positions :
           ~slide[n].exclude => \E i \in 1..Len(returned) : returned[i].id = slide[n].id
    /\ \A i, j \in 1..Len(returned) : i < j => PositionOf(i) < PositionOf(j)

\* The shape at position n is not in the containment index and is neither
\* a child nor a parent
OutOfForest(n) ==
    /\ ~Indexed(n)
    /\ slide[n].parent = NoParent
    /\ \A m \in Positions : slide[m].parent # slide[n].id

\* C18: classify() returns exactly the non-excluded shapes in input order,
\* and a shape that ends construction excluded is not in the containment
\* index and is neither a parent nor a child in the containment forest.
C18_ExcludedShapesDropped ==
    /\ (Classified /\ runs = 1) => ReturnedNotExcluded
    /\ (Constructed /\ runs = 1) =>
           \A n \in Positions : slide[n].exclude => OutOfForest(n)

-----------------------------------------------------------------------------
(* Claims about parallel connections *)

\* Two connections have the same pair of end connectors
SamePair(c1, c2) ==
    /\ Len(IdsOf(c1)) = 2
    /\ Len(IdsOf(c2)) = 2
    /\ Pair(IdsOf(c1)[1], IdsOf(c1)[2]) = Pair(IdsOf(c2)[1], IdsOf(c2)[2])

InAsDict(c) ==
    \E entry \in as_dict(cc).neural \cup as_dict(cc).vascular : entry.id = c

\* C19: two distinct connections that were added, were not merged into
\* another connection and have the same pair of end connectors are both
\* carried by an edge and both appear in as_dict().
C19_ParallelConnectionsKept ==
    mode = "connections" =>
        \A c1, c2 \in Completed :
            (c1 # c2 /\ SamePair(c1, c2)
                    /\ ~conns[c1].exclude /\ ~conns[c2].exclude)
                => /\ Final(c1) /\ Final(c2)
                   /\ InAsDict(c1) /\ InAsDict(c2)

\* The joiner candidates of the last construction, as positions
Joiners ==
    {classifier.connection_joiners[k] : k \in 1..Len(classifier.connection_joiners)}

\* The geometry of the shape at position n when the loop over the joiner
\* candidates reached it
QueryGeometry(n) == IF Indexed(n) THEN IndexedGeometry(n) ELSE slide[n].geometry

\* The end regions nearest to the joiner candidate at position n
NearestEnds(n) == query_nearest(classifier.connection_ends, QueryGeometry(n))

\* The bounds have grown by the max-line-width tolerance on every side
Inflated(geometry, original) ==
    /\ geometry.box[1] = original.box[1] - max_line_width
    /\ geometry.box[2] = original.box[2] - max_line_width
    /\ geometry.box[3] = original.box[3] + max_line_width
    /\ geometry.box[4] = original.box[4] + max_line_width
    /\ geometry.area > original.area

\* C20: after a construction, every joiner candidate whose nearest-end
\* query returned exactly two end regions is excluded and the joined-
\* connections graph has an edge between the two connections that own
\* them; every other joiner candidate is not excluded, has colour yellow
\* and stroke red, and its geometry is inflated by the max-line-width
\* tolerance.
C20_JoinerResolvedOrFlagged ==
    (mode = "shapes" /\ stage = "constructed" /\ ~raised) =>
        \A n \in Joiners :
            IF Len(NearestEnds(n)) = 2
            THEN /\ slide[n].exclude
                 /\ {classifier.connection_ends[NearestEnds(n)[1]].shape,
                     classifier.connection_ends[NearestEnds(n)[2]].shape}
                        \in classifier.joined_connection_graph
            ELSE /\ ~slide[n].exclude
                 /\ slide[n].colour = "yellow"
                 /\ slide[n].stroke = "red"
                 /\ Indexed(n)
                 /\ Inflated(slide[n].geometry, IndexedGeometry(n))

-----------------------------------------------------------------------------
(* Claims about the merge of joined connections *)

\* The shapes handed to the constructor of the last run: the shapes of the
\* diagram for the first run, what the first run left for the second
Ingested ==
    IF runs <= 1 THEN [n \in Positions |-> Diagram[slide[n].id]] ELSE first_run

\* The classifier at line 167 of the last construction, when the joiner
\* candidates have been resolved and no joined connection is merged yet
BeforeMerge ==
    resolve_joiners(VisitShapes(ShapeClassifier(Ingested, classifier.authoring),
                                Len(Ingested)))

JoinedComponents == connected_components(BeforeMerge.joined_connection_graph)

\* The segments of a line, whatever the direction it is drawn in
Segments(coords) == {{coords[i], coords[i + 1]} : i \in 1..(Len(coords) - 1)}

Survivors(component) == {n \in component : ~slide[n].exclude}

\* The member's geometry is one line made of the segments of all members
MergedInto(component, survivor) ==
    /\ slide[survivor].geometry.geom_type = "LineString"
    /\ Segments(slide[survivor].geometry.coords)
         = UNION {Segments(BeforeMerge.shapes[m].geometry.coords) : m \in component}

\* The members' lines can be sewn into one line, end to end
Collapses(component) ==
    \E first \in component :
        line_merge(BeforeMerge, BeforeMerge.shapes[first].geometry.coords,
                   component \ {first}) # <<>>

\* C21: after a construction that completed, every connected component of
\* the joined-connections graph has exactly one member that is not excluded,
\* whose geometry is the single line merged from the geometries of all the
\* members and whose 'directional' is set exactly if some member had it set;
\* a construction fails in the merge only on a component whose lines do not
\* collapse to a single line, and then no member of that component has a new
\* geometry or has been excluded.
C21_JoinedConnectionsMergedIntoOne ==
    (mode = "shapes" /\ stage = "constructed" /\ ~BeforeMerge.raised) =>
        IF ~raised
        THEN \A component \in JoinedComponents :
                /\ Collapses(component)
                /\ Cardinality(Survivors(component)) = 1
                /\ \A survivor \in Survivors(component) :
                      /\ MergedInto(component, survivor)
                      /\ slide[survivor].directional
                           = (\E m \in component : BeforeMerge.shapes[m].directional)
        ELSE \E component \in JoinedComponents :
                /\ ~Collapses(component)
                /\ \A m \in component :
                      /\ slide[m].geometry = BeforeMerge.shapes[m].geometry
                      /\ slide[m].exclude = BeforeMerge.shapes[m].exclude

\* C21 witness: a construction has merged two joined connections; the member
\* that survives was not 'directional' and has it from the excluded member
C21_Witness ==
    /\ mode = "shapes" /\ stage = "constructed" /\ ~raised
    /\ \E component \in JoinedComponents :
          /\ Cardinality(component) = 2
          /\ \E survivor \in Survivors(component) :
                /\ ~BeforeMerge.shapes[survivor].directional
                /\ slide[survivor].directional
                /\ Len(slide[survivor].geometry.coords) = 3
          /\ \E m \in component : slide[m].exclude

-----------------------------------------------------------------------------
(* Claims about the decision tree *)

\* The classifier at line 152 of the last construction, when the loop over
\* the shapes has left them
Visited ==
    VisitShapes(ShapeClassifier(Ingested, classifier.authoring), Len(Ingested))

\* The next shape in input order is a TEXT shape
TextFollows(n) ==
    n < Len(Ingested) /\ Ingested[n + 1].shape_type = "TEXT"

\* The condition of rule k of the decision tree, for the shape at position n
RuleHolds(k, n) ==
    LET g == Ingested[n].geometry
    IN  CASE k = 1 -> BBoxCoverageAbove(g, 1, 1000) /\ g.geom_type = "MultiPolygon"
          [] k = 2 -> /\ TextFollows(n)
                      /\ CoverageBelow(g, 1, 2)
                      /\ BBoxCoverageBelow(g, 1, 1000)
          [] k = 3 -> CoverageBelow(g, 4, 10) \/ g.geom_type = "LineString"
          [] k = 4 -> BBoxCoverageAbove(g, 1, 1000) /\ CoverageAbove(g, 9, 10)
          [] k = 5 -> /\ BBoxCoverageBelow(g, 5, 10000)
                      /\ AspectAbove(g, 9, 10)
                      /\ CoverageAbove(g, 7, 10)
                      /\ ~CoverageAbove(g, 85, 100)
          [] k = 6 -> BBoxCoverageBelow(g, 1, 1000) /\ CoverageAbove(g, 85, 100)
          [] k = 7 -> g.ncoords = 4
          [] OTHER -> TRUE

FirstRule(n) ==
    CHOOSE k \in 1..8 : RuleHolds(k, n) /\ \A j \in 1..(k - 1) : ~RuleHolds(j, n)

\* The shape at position n has been visited by the loop
Reached(n) ==
    \/ ~Visited.raised
    \/ \E i \in 1..Len(Visited.geometries) : Visited.geometries[i].shape > n
    \/ \E i \in 1..Len(Visited.connection_ends) : Visited.connection_ends[i].shape > n
    \/ \E m \in (n + 1)..Len(Ingested) : Visited.shapes[m] # Ingested[m]

\* The shape at position n has the outcome of rule k: a type for the rules
\* 1, 4, 5 and 6, the exclusion of a text background for rule 2, a line
\* extraction (a CONNECTION, or the flag of a failure) for the rules 3 and 8,
\* a place among the joiner candidates for rule 7; but for rule 2 and a
\* failed extraction, the 'exclude' flag is as it came
HasOutcome(n, k) ==
    LET s == Visited.shapes[n]
        candidate == InSeq(n, Visited.connection_joiners)
        extraction == \/ s.shape_type = "CONNECTION"
                      \/ /\ s.shape_type = "UNKNOWN"
                         /\ s.colour = "yellow"
                         /\ s.exclude = ~classifier.authoring
    IN  /\ Reached(n)
        /\ CASE k = 1 -> s.shape_type = "BOUNDARY" /\ s.exclude = Ingested[n].exclude /\ ~candidate
             [] k = 2 -> /\ s.shape_type = "UNKNOWN" /\ s.exclude /\ ~candidate
                         /\ s.colour = Ingested[n].colour
             [] k \in {3, 8} -> extraction /\ ~candidate
             [] k = 4 -> s.shape_type = "CONTAINER" /\ s.exclude = Ingested[n].exclude /\ ~candidate
             [] k \in {5, 6} -> s.shape_type = "COMPONENT" /\ s.exclude = Ingested[n].exclude /\ ~candidate
             [] OTHER -> /\ s.shape_type = "UNKNOWN" /\ candidate
                         /\ s.exclude = Ingested[n].exclude

\* The loop left the shape at position n as it came, but for the border
\* width of line 151
Untouched(n) ==
    /\ [Visited.shapes[n] EXCEPT !.stroke_width = Ingested[n].stroke_width]
         = Ingested[n]
    /\ ~InSeq(n, Visited.connection_joiners)
    /\ \A i \in 1..Len(Visited.connection_ends) : Visited.connection_ends[i].shape # n

\* A line, or a thin polygon, with a small bounding box
SmallLineOrThinPolygon(n) ==
    LET g == Ingested[n].geometry
    IN  /\ \/ g.geom_type = "LineString"
           \/ (g.geom_type = "Polygon" /\ CoverageBelow(g, 4, 10))
        /\ BBoxCoverageBelow(g, 1, 1000)

\* C22: in a construction the decision tree runs only for the shapes whose
\* type is UNKNOWN, and each of them gets the outcome of the first of the
\* rules 1 to 8 whose condition holds; a line or thin polygon with
\* bbox_coverage < 0.001 that a TEXT shape follows is excluded and is not
\* typed CONNECTION.
C22_FirstRuleInOrderDecides ==
    (mode = "shapes" /\ stage = "constructed") =>
        \A n \in 1..Len(Ingested) :
            IF Ingested[n].shape_type # "UNKNOWN"
            THEN Reached(n) => Untouched(n)
            ELSE /\ HasOutcome(n, FirstRule(n))
                 /\ (SmallLineOrThinPolygon(n) /\ TextFollows(n)) =>
                       /\ Visited.shapes[n].exclude
                       /\ Visited.shapes[n].shape_type # "CONNECTION"

\* A shape of one polygon that fills more than 90% of its bounds and is not
\* taken for the background of a text
FilledPolygon(n) ==
    /\ Ingested[n].shape_type = "UNKNOWN"
    /\ Ingested[n].geometry.geom_type = "Polygon"
    /\ CoverageAbove(Ingested[n].geometry, 9, 10)
    /\ ~RuleHolds(2, n)

\* C30: in a construction, every UNKNOWN shape of a single polygon with
\* coverage > 0.9 that the loop reaches and that is not excluded as a text
\* background is typed CONTAINER or COMPONENT, whatever its bbox_coverage
\* (0.001 included); it is no joiner candidate and goes through no line
\* extraction.
C30_FilledPolygonsAreTyped ==
    (mode = "shapes" /\ stage = "constructed") =>
        \A n \in 1..Len(Ingested) :
            (FilledPolygon(n) /\ Reached(n)) =>
                /\ Visited.shapes[n].shape_type \in {"CONTAINER", "COMPONENT"}
                /\ ~InSeq(n, Visited.connection_joiners)
                /\ Visited.shapes[n].colour = Ingested[n].colour
                /\ Visited.shapes[n].exclude = Ingested[n].exclude

-----------------------------------------------------------------------------
(* Claims about reproducible output *)

\* Another construction on the shapes the last one was given
Rerun(set_order) == ShapeClassifier_init(Ingested, classifier.authoring, set_order)

ParentsOf(shapes) == [n \in DOMAIN shapes |-> shapes[n].parent]

\* The members of a joined-connection group that a construction left not
\* excluded, and those it excluded
SurvivorsOf(shapes, component) == {n \in component : ~shapes[n].exclude}
ExcludedOf(shapes, component) == {n \in component : shapes[n].exclude}

SameParents(again) == ParentsOf(again.shapes) = ParentsOf(slide)

SameGroups(again) ==
    \A component \in JoinedComponents :
        /\ SurvivorsOf(again.shapes, component) = SurvivorsOf(slide, component)
        /\ ExcludedOf(again.shapes, component) = ExcludedOf(slide, component)

\* C24: the output is a function of the ordered input.  Any other
\* construction on the same shapes in the same order fails or completes as
\* this one did, gives every shape the same parent, and leaves in every
\* joined-connection group the same surviving member and the same excluded
\* members.  (The connection at a join node that a later connection is
\* joined to is the first neighbour in the adjacency order of the graph,
\* which add_connection computes from the calls made so far.)
C24_SameOutputForSameInput ==
    (mode = "shapes" /\ stage = "constructed") =>
        \A set_order \in SetOrders :
            /\ Rerun(set_order).raised = raised
            /\ SameParents(Rerun(set_order))
            /\ SameGroups(Rerun(set_order))

-----------------------------------------------------------------------------
(* Claims about the joining of neuron segments *)

\* What a call did at the pending join connectors it reached: the joins it
\* rejected, the splices it made and the splices that failed
AttemptsOf(call) ==
    {call.rejects[i] : i \in 1..Len(call.rejects)}
        \cup {call.splices[i] : i \in 1..Len(call.splices)}
        \cup {call.failed[i] : i \in 1..Len(call.failed)}

TooManyEdgesLogged ==
    <<"error", "Connector has too many edges from it">> \in cc.log

\* C23: when add_connection reaches a pending join connector that already
\* has more than two neighbours in the neural graph, an error is logged for
\* the connector, and the call completes.
C23_TooManyNeighboursLogged ==
    \A n \in 1..Len(calls) :
        \A a \in AttemptsOf(calls[n]) :
            a.neighbours > 2 => (TooManyEdgesLogged /\ ~calls[n].raised)

-----------------------------------------------------------------------------
(* Claims about the domain graphs *)

\* Every edge of the graph joins two connectors of the class
EdgesWithin(g, fc_class) ==
    \A e \in g.edges :
        /\ cc.connectors[e.pair[1]].fc_class = fc_class
        /\ cc.connectors[e.pair[2]].fc_class = fc_class

\* The connectors at the two ends of the call's connection differ in class
MismatchedEnds(call) ==
    /\ Len(call.ends) = 2
    /\ call.ends[1] \in DOMAIN cc.connectors
    /\ call.ends[2] \in DOMAIN cc.connectors
    /\ cc.connectors[call.ends[1]].fc_class # cc.connectors[call.ends[2]].fc_class

IncompatibleEndsLogged ==
    <<"error", "Connection ends aren't compatible">> \in cc.log

\* C25: after any sequence of add_connection calls, every edge of the neural
\* graph joins two NEURAL connectors and every edge of the vascular graph
\* two VASCULAR connectors; a connection whose two resolved connectors differ
\* in domain class has been logged as an error.
C25_EdgesWithinOneDomain ==
    /\ EdgesWithin(cc.neural_graph, "NEURAL")
    /\ EdgesWithin(cc.vascular_graph, "VASCULAR")
    /\ \A n \in 1..Len(calls) : MismatchedEnds(calls[n]) => IncompatibleEndsLogged


\* The connectors of the graph's edges that are marked as excluded
ExcludedEndpoints(g) ==
    {id \in UNION {{e.pair[1], e.pair[2]} : e \in g.edges} :
        cc.connectors[id].exclude}

\* C26: after any sequence of add_connection calls no edge of the neural
\* graph is incident to an excluded connector: a JOINER connector excluded
\* by a splice is never again the endpoint of an edge.
C26_NoEdgeAtExcludedConnector ==
    ExcludedEndpoints(cc.neural_graph) = {}

\* The accepted splice p = <<call, index>>
SpliceAt(p) == calls[p[1]].splices[p[2]]

\* C27: over any sequence of add_connection calls each JOINER connector
\* takes part in at most one accepted splice.
C27_JoinerSplicedAtMostOnce ==
    \A p, q \in AllSplices :
        ( /\ SpliceAt(p).connector = SpliceAt(q).connector
          /\ cc.connectors[SpliceAt(p).connector].fc_kind = "CONNECTOR_JOINER" )
            => p = q


-----------------------------------------------------------------------------
(* Claims about free-end connectors *)

\* The connectors that the resolution of an end point can return
Resolvable(c) == {c.connector_geometries[i] : i \in 1..Len(c.connector_geometries)}

\* The synthesized free-end connectors of all calls
FreeEndConnectors == UNION {FreeEndsOf(calls[n]) : n \in 1..Len(calls)}

\* The edges of the domain graphs that end at the connector
EdgesAt(id) ==
    {e \in cc.neural_graph.edges \cup cc.vascular_graph.edges :
        id \in {e.pair[1], e.pair[2]}}

\* No free-end connector can be returned by the resolution of an end point
FreeEndsNotIndexed == FreeEndConnectors \cap Resolvable(cc) = {}

\* Every free-end connector is in the connector table and is a graph node
FreeEndsAreNodes ==
    \A id \in FreeEndConnectors :
        /\ id \in DOMAIN cc.connectors
        /\ id \in cc.neural_graph.nodes \cup cc.vascular_graph.nodes

\* Distinct connections have distinct free-end connectors, and no free-end
\* connector links two connections
FreeEndsNeverLink ==
    /\ \A m, n \in 1..Len(calls) :
          m # n => FreeEndsOf(calls[m]) \cap FreeEndsOf(calls[n]) = {}
    /\ \A id \in FreeEndConnectors : Cardinality(EdgesAt(id)) <= 1
    /\ \A i \in 1..Len(cc.join_nodes) : cc.join_nodes[i] \notin FreeEndConnectors

\* An add_connection call leaves the resolvable connectors as they were
ResolutionFrame ==
    [][calls' # calls => Resolvable(cc') = Resolvable(cc)]_vars

\* C28: add_connection never changes the set of connectors that endpoint
\* resolution can return: synthesized free-end connectors are in the
\* connector table and are graph nodes but are not in the connector spatial
\* index, so two connections with an unconnected end at the same point get
\* distinct free-end connectors and are never linked through them.
C28_FreeEndsStayOutOfResolution ==
    /\ ResolutionFrame
    /\ [](FreeEndsNotIndexed /\ FreeEndsAreNodes /\ FreeEndsNeverLink)


-----------------------------------------------------------------------------
(* Claims about the line of a spliced connection *)

\* The splices a call accepted, those that raised included, in order
AcceptedBy(call) == call.splices \o call.failed

\* The end of the new connection's line away from the join connector
FarEndOfNew(e) ==
    IF e.coord_index = 0 THEN Last(e.new_before.coords)
    ELSE e.new_before.coords[1]

\* The ends of the recorded connection's line that are not the nearer one to
\* the join connector
FarEndsOfOld(e) ==
    LET b == e.old_before.coords
        p == cc.connectors[e.connector].pos
    IN  {pt \in {b[1], Last(b)} :
            \A other \in {b[1], Last(b)} : Dist2(p, pt) >= Dist2(p, other)}

\* The line the splice made is the two lines one after the other, and it
\* runs from the far end of one to the far end of the other
JoinsFarEnds(e) ==
    /\ IsConcatenation(e.coordinates, e.new_before.coords, e.old_before.coords)
    /\ \E far \in FarEndsOfOld(e) :
          \/ e.coordinates[1] = far /\ Last(e.coordinates) = FarEndOfNew(e)
          \/ e.coordinates[1] = FarEndOfNew(e) /\ Last(e.coordinates) = far

\* The line of the call's connection is the line its last splice made
SurvivorHasLine(call) ==
    AcceptedBy(call) # <<>> =>
        conns[call.connection].coords = Last(AcceptedBy(call)).coordinates

\* C29: after an accepted splice the surviving connection's line is the two
\* original lines concatenated so that they meet at the join connector: it
\* runs between the two ends away from the join connector, in each
\* orientation of the two lines and also when both ends of the new
\* connection are spliced in the same call.
C29_SplicedLineJoinsFarEnds ==
    \A n \in 1..Len(calls) :
        /\ \A i \in 1..Len(AcceptedBy(calls[n])) : JoinsFarEnds(AcceptedBy(calls[n])[i])
        /\ SurvivorHasLine(calls[n])

====
